---- MODULE Spec2Model ----
(***************************************************************************)
(* State-machine model of the PDF cache, the retry executor and the fund   *)
(* processing pipeline of sprint1/fondos_mutuos.py and sprint1/main.py.    *)
(*                                                                         *)
(* Time is counted in days.  The index file exists, as _init_cache_system  *)
(* leaves it, and reads and writes of the index and of the blobs succeed.  *)
(***************************************************************************)
EXTENDS Integers, Sequences, FiniteSets, TLC

(***************************************************************************)
(* Bounds of the model.                                                    *)
(***************************************************************************)
MaxTime == 2
MaxCalls == 3
MaxRetrievals == 2
MaxRetries == 3
MaxFunds == 2
MaxFaultCalls == 2

(***************************************************************************)
(* Inputs.                                                                 *)
(***************************************************************************)
None == "None"
NoFile == <<"ENOENT">>
PdfBytes == {<<"%PDF", 1>>, <<"%PDF", 2>>}
OtherBytes == {<<"<htm", 1>>}
Ruts == {"8638"}
RutInputs == Ruts \cup {""}
Series == {"UNICA", "A"}
TTLValues == {0, 1}

VARIABLES
    now,                    \* datetime.now(), in days
    cache_expiration_days,  \* self.cache_expiration_days
    cache_index,            \* contents of cache/pdf_cache_index.json
    files,                  \* the blobs under cache/pdfs: path -> bytes
    cache_stats,            \* self.cache_stats
    ret,                    \* the last call and what it returned
    calls,                  \* history: calls made on the processor so far
    stored,                 \* history: key -> the last successful store
    ext_deleted,            \* history: keys whose blob was deleted externally since
    rq,                     \* request_with_retry: the call in progress, or the last one
    batch,                  \* procesar_batch_fondos: the loop and its `resultados`
    last_fund,              \* history: what the last procesar_fondo did
    io_log,                 \* history: the index I/O errors of the last call, and
                            \* whether an exception escaped it
    call,                   \* a call of a function: its arguments and its result
    poll,                   \* _wait_for_download_complete: the loop and the directory
    savers,                 \* two processors in _save_to_cache on one index file
    monitor,                \* CMFMonitor: cache/cmf_baseline.json and the cycle in progress
    driver,                 \* _download_pdf_with_selenium: the call and its browsers
    index_exists            \* os.path.exists(self.cache_index_path)

procVars == <<savers, monitor, driver, index_exists>>

cacheVars == <<now, cache_expiration_days, cache_index, files, cache_stats, ret,
               calls, stored, ext_deleted, io_log>>

(***************************************************************************)
(* Paths and keys.                                                         *)
(***************************************************************************)
cache_key(rut, serie) == rut \o "_" \o serie

cached_pdf_path(key) == "cache/pdfs/" \o key \o ".pdf"

folleto_path(rut) == "temp/folleto_" \o rut \o ".pdf"

fondo_path(rut, serie) == "temp/fondo_" \o rut \o "_" \o serie \o ".pdf"

Keys == {cache_key(r, s) : r \in Ruts, s \in Series}

CachePaths == {cached_pdf_path(k) : k \in Keys}

Paths == CachePaths

exists(fs, path) == path \in DOMAIN fs /\ fs[path] # NoFile

remove(fs, path) == IF path \in DOMAIN fs THEN [fs EXCEPT ![path] = NoFile] ELSE fs

getsize(fs, path) == 4 + fs[path][2]

(***************************************************************************)
(* datetime <-> ISO-8601 text, as stored in the index.                     *)
(***************************************************************************)
isoformat(t) == <<"iso", t>>

fromisoformat(s) == s[2]

timedelta(days) == days

(***************************************************************************)
(* The processor's cache state as one value, so that a handler can chain   *)
(* the cache calls it makes.                                               *)
(***************************************************************************)
CS == [index |-> cache_index, files |-> files, stats |-> cache_stats]

drop(index, key) == [k \in DOMAIN index \ {key} |-> index[k]]

put(index, key, entry) == [k \in DOMAIN index \cup {key} |-> IF k = key THEN entry ELSE index[k]]

bump(cs, counter) == [cs EXCEPT !.stats[counter] = @ + 1]

is_expired_never(t, expires_at) == FALSE

\* datetime.now() > datetime.fromisoformat(expires_at)
is_expired(t, expires_at) == t > fromisoformat(expires_at)

get_cached_pdf(cs, t, rut, serie) ==
    LET key == cache_key(rut, serie) IN
    IF key \notin DOMAIN cs.index
    THEN [cs |-> bump(cs, "misses"), val |-> None]
    ELSE LET entry == cs.index[key]
             pdf_path == entry.pdf_path
             expires_at == entry.expires_at
         IN IF ~exists(cs.files, pdf_path)
            THEN [cs |-> bump([cs EXCEPT !.index = drop(@, key)], "misses"), val |-> None]
            ELSE IF is_expired(t, expires_at)
            THEN [cs |-> bump([cs EXCEPT !.files = remove(@, pdf_path),
                                         !.index = drop(@, key)], "misses"),
                  val |-> None]
            ELSE [cs |-> bump(cs, "hits"), val |-> pdf_path]

expiry_none(downloaded_at, ttl) == downloaded_at

expiry(downloaded_at, ttl) == downloaded_at + timedelta(ttl)

\* pdf_path is a file under temp/, given by its bytes (NoFile: there is no such file)
save_to_cache(cs, t, ttl, rut, serie, pdf_path) ==
    LET key == cache_key(rut, serie)
        cached == cached_pdf_path(key)
    IN IF pdf_path = NoFile
       THEN [cs |-> cs, val |-> FALSE]
       ELSE LET copied == [cs.files EXCEPT ![cached] = pdf_path]
                downloaded_at == t
                expires_at == expiry(downloaded_at, ttl)
                metadata == [rut |-> rut, serie |-> serie, pdf_path |-> cached,
                             downloaded_at |-> isoformat(downloaded_at),
                             expires_at |-> isoformat(expires_at),
                             file_size |-> getsize(copied, cached)]
            IN [cs |-> [cs EXCEPT !.files = copied, !.index = put(@, key, metadata)],
                val |-> TRUE]

expired_keys_inclusive(index, t) ==
    {k \in DOMAIN index : t >= fromisoformat(index[k].expires_at)}

expired_keys(index, t) == {k \in DOMAIN index : t > fromisoformat(index[k].expires_at)}

\* a sweep that stops after the first expired entry
clean_first_expired(cs, t) ==
    LET expired == expired_keys(cs.index, t)
        first == IF expired = {} THEN {} ELSE {CHOOSE k \in expired : TRUE}
        gone == {cs.index[k].pdf_path : k \in first}
    IN [cs EXCEPT !.files = [p \in DOMAIN @ |-> IF p \in gone THEN NoFile ELSE @[p]],
                  !.index = [k \in DOMAIN @ \ first |-> @[k]]]

clean_expired_cache(cs, t) ==
    LET expired == expired_keys(cs.index, t)
        gone == {cs.index[k].pdf_path : k \in expired}
    IN [cs EXCEPT !.files = [p \in DOMAIN @ |-> IF p \in gone THEN NoFile ELSE @[p]],
                  !.index = [k \in DOMAIN @ \ expired |-> @[k]]]

EmptyIndex == [k \in {} |-> None]

NoStats == [hits |-> 0, misses |-> 0, downloads |-> 0]

Returned(op, key, val, http, browser) ==
    [op |-> op, key |-> key, val |-> val, http |-> http, browser |-> browser]

Commit(cs) ==
    /\ cache_index' = cs.index
    /\ files' = cs.files
    /\ cache_stats' = cs.stats

\* one more call on the processor, within the bound of the model
Call(max) ==
    /\ calls < max
    /\ calls' = calls + 1
    /\ UNCHANGED <<rq, batch, last_fund, io_log, call, poll, procVars>>

\* history: a store of `key` succeeded now with the bytes of the blob
\* a call that also logs its index I/O errors
Call2(max) ==
    /\ calls < max
    /\ calls' = calls + 1
    /\ UNCHANGED <<rq, batch, last_fund, call, poll, procVars>>

NoteStore(saved, key, cs) ==
    IF saved
    THEN /\ stored' = put(stored, key, [bytes |-> cs.files[cached_pdf_path(key)],
                                        at |-> now])
         /\ ext_deleted' = ext_deleted \ {key}
    ELSE UNCHANGED <<stored, ext_deleted>>

(***************************************************************************)
(* The environment: the clock, and somebody deleting a blob.               *)
(***************************************************************************)
Tick ==
    /\ now < MaxTime
    /\ now' = now + 1
    /\ ret' = Returned("tick", None, None, FALSE, FALSE)
    /\ UNCHANGED <<cache_expiration_days, cache_index, files, cache_stats, calls, stored,
                    ext_deleted, rq, batch, last_fund, io_log, call, poll, procVars>>

ExternalDelete ==
    \E k \in Keys :
        /\ exists(files, cached_pdf_path(k))
        /\ files' = remove(files, cached_pdf_path(k))
        /\ ext_deleted' = ext_deleted \cup {k}
        /\ ret' = Returned("external_delete", k, None, FALSE, FALSE)
        /\ UNCHANGED <<now, cache_expiration_days, cache_index, cache_stats, calls, stored,
                        rq, batch, last_fund, io_log, call, poll, procVars>>

(***************************************************************************)
(* FondosMutuosProcessor(): fresh counters, then the sweep.                *)
(***************************************************************************)
Construct ==
    /\ Call(MaxCalls)
    /\ Commit(clean_expired_cache([CS EXCEPT !.stats = NoStats], now))
    /\ ret' = Returned("__init__", None, None, FALSE, FALSE)
    /\ UNCHANGED <<now, cache_expiration_days, stored, ext_deleted>>

(***************************************************************************)
(* Direct calls of the cache methods.                                      *)
(***************************************************************************)
GetCachedPdf ==
    \E rut \in Ruts, serie \in Series :
        LET res == get_cached_pdf(CS, now, rut, serie) IN
        /\ Call(MaxCalls)
        /\ Commit(res.cs)
        /\ ret' = Returned("get_cached_pdf", cache_key(rut, serie), res.val, FALSE, FALSE)
        /\ UNCHANGED <<now, cache_expiration_days, stored, ext_deleted>>

SaveToCache ==
    \E rut \in Ruts, serie \in Series, pdf_path \in PdfBytes \cup {NoFile} :
        LET res == save_to_cache(CS, now, cache_expiration_days, rut, serie, pdf_path) IN
        /\ Call(MaxCalls)
        /\ Commit(res.cs)
        /\ NoteStore(res.val, cache_key(rut, serie), res.cs)
        /\ ret' = Returned("save_to_cache", cache_key(rut, serie), res.val, FALSE, FALSE)
        /\ UNCHANGED <<now, cache_expiration_days>>

CleanExpiredCache ==
    /\ Call(MaxCalls)
    /\ Commit(clean_expired_cache(CS, now))
    /\ ret' = Returned("clean_expired_cache", None, None, FALSE, FALSE)
    /\ UNCHANGED <<now, cache_expiration_days, stored, ext_deleted>>

(***************************************************************************)
(* What the source site and the browser answer, as inputs of a retrieval.  *)
(***************************************************************************)
SeleniumOutcomes == {<<"nodriver">>, <<"nolink">>, <<"timeout">>} \cup PdfBytes

PostOutcomes == {"exception", "http_error", "html", "ERROR", "empty", "path"}

NoGet == [status |-> "none", content_type_pdf |-> FALSE, content |-> <<"<htm", 1>>]

GetOutcomes ==
    [status : {"exception", "http_error"}, content_type_pdf : {FALSE}, content : OtherBytes]
        \cup [status : {"ok"}, content_type_pdf : BOOLEAN, content : PdfBytes \cup OtherBytes]

\* the GET is only issued, and so only answered, after a POST that returned a path
CmfAnswers ==
    {<<post, NoGet>> : post \in PostOutcomes \ {"path"}}
        \cup {<<"path", get>> : get \in GetOutcomes}

\* _download_pdf_with_selenium: the browser run, given what the site does;
\* bytes is what it left in temp/folleto_{rut}.pdf
download_pdf_with_selenium(rut, sel) ==
    CASE sel = <<"nodriver">> -> [val |-> None, bytes |-> NoFile, browser |-> FALSE]
      [] sel \in {<<"nolink">>, <<"timeout">>} ->
            [val |-> None, bytes |-> NoFile, browser |-> TRUE]
      [] OTHER -> [val |-> folleto_path(rut), bytes |-> sel, browser |-> TRUE]

found_never(cached_pdf) == FALSE

\* `if cached_pdf:` after the lookup
found(cached_pdf) == cached_pdf.val # None

download_pdf_from_cmf_improved(cs, t, ttl, rut, page_url, sel) ==
    IF rut = ""
    THEN [cs |-> cs, val |-> None, http |-> FALSE, browser |-> FALSE, saved |-> FALSE]
    ELSE LET cached_pdf == get_cached_pdf(cs, t, rut, "UNICA") IN
         IF found(cached_pdf)
         THEN [cs |-> cached_pdf.cs, val |-> cached_pdf.val, http |-> FALSE,
               browser |-> FALSE, saved |-> FALSE]
         ELSE LET cs1 == bump(cached_pdf.cs, "downloads") IN
              IF ~page_url
              THEN [cs |-> cs1, val |-> None, http |-> TRUE, browser |-> FALSE,
                    saved |-> FALSE]
              ELSE LET got == download_pdf_with_selenium(rut, sel) IN
                   IF got.val = None
                      THEN [cs |-> cs1, val |-> None, http |-> TRUE,
                            browser |-> got.browser, saved |-> FALSE]
                      ELSE LET sv == save_to_cache(cs1, t, ttl, rut, "UNICA", got.bytes) IN
                           [cs |-> sv.cs, val |-> got.val, http |-> TRUE,
                            browser |-> got.browser, saved |-> sv.val]

is_pdf(get) == get.content_type_pdf \/ get.content[1] = "%PDF"

download_pdf_from_cmf(cs, t, ttl, rut, serie, post, get) ==
    LET cached_pdf == get_cached_pdf(cs, t, rut, serie) IN
    IF found(cached_pdf)
    THEN [cs |-> cached_pdf.cs, val |-> cached_pdf.val, http |-> FALSE,
          browser |-> FALSE, saved |-> FALSE]
    ELSE LET cs1 == bump(cached_pdf.cs, "downloads")
             failed == [cs |-> cs1, val |-> None, http |-> TRUE, browser |-> FALSE,
                        saved |-> FALSE]
         IN IF post # "path" \/ get.status # "ok"
            THEN failed
            ELSE IF ~is_pdf(get)
            THEN failed
            ELSE LET pdf_path == fondo_path(rut, serie)
                     sv == save_to_cache(cs1, t, ttl, rut, serie, get.content)
                 IN [cs |-> sv.cs, val |-> pdf_path, http |-> TRUE, browser |-> FALSE,
                     saved |-> sv.val]

(***************************************************************************)
(* Direct calls of the two retrievers.                                     *)
(***************************************************************************)
DownloadPdfFromCmfImproved ==
    \E rut \in RutInputs, page_url \in BOOLEAN, sel \in SeleniumOutcomes :
        LET res == download_pdf_from_cmf_improved(CS, now, cache_expiration_days,
                                                  rut, page_url, sel)
        IN /\ Call(MaxRetrievals)
           /\ Commit(res.cs)
           /\ NoteStore(res.saved, cache_key(rut, "UNICA"), res.cs)
           /\ ret' = Returned("download_pdf_from_cmf_improved", cache_key(rut, "UNICA"),
                              res.val, res.http, res.browser)
           /\ UNCHANGED <<now, cache_expiration_days>>

DownloadPdfFromCmf ==
    \E rut \in Ruts, serie \in Series, answer \in CmfAnswers :
        LET res == download_pdf_from_cmf(CS, now, cache_expiration_days,
                                         rut, serie, answer[1], answer[2])
        IN /\ Call(MaxRetrievals)
           /\ Commit(res.cs)
           /\ NoteStore(res.saved, cache_key(rut, serie), res.cs)
           /\ ret' = Returned("download_pdf_from_cmf", cache_key(rut, serie),
                              res.val, res.http, res.browser)
           /\ UNCHANGED <<now, cache_expiration_days>>

(***************************************************************************)
(* request_with_retry: HTTP GET with retry and exponential backoff.        *)
(***************************************************************************)
Statuses == {200, 403, 404, 500, 503}

RetryStatusesWide == {404, 500, 503}

RetryStatuses == {404, 503}

Backoffs == {2, 3}

\* what session.get does on one attempt: a response, or one of the two exceptions
Answers ==
    [kind : {"response"}, status_code : Statuses]
        \cup [kind : {"Timeout", "RequestException"}, status_code : {0}]

\* the return value None
NoResponse == [kind |-> "None", status_code |-> 0]

RECURSIVE pow(_, _)
pow(b, e) == IF e = 0 THEN 1 ELSE b * pow(b, e - 1)

wait_time_linear(backoff, attempt) == backoff * attempt

wait_time(backoff, attempt) == pow(backoff, attempt)

RqIdle ==
    [pc |-> "idle", max_retries |-> 0, backoff |-> 2, attempt |-> 0, seen |-> <<>>,
     sleeps |-> <<>>, val |-> NoResponse]

\* time.sleep(wait_time), then the next iteration of the loop
retry(r, answer) ==
    [r EXCEPT !.seen = Append(@, answer),
              !.sleeps = Append(@, wait_time(r.backoff, r.attempt)),
              !.attempt = @ + 1]

return(r, answer, val) ==
    [r EXCEPT !.seen = Append(@, answer), !.pc = "returned", !.val = val]

\* one iteration of `for attempt in range(max_retries)`, given what session.get did
attempt_body(r, answer) ==
    IF answer.kind = "response"
    THEN IF answer.status_code = 200
         THEN return(r, answer, answer)
         ELSE IF answer.status_code \in RetryStatuses /\ r.attempt < r.max_retries - 1
         THEN retry(r, answer)
         ELSE return(r, answer, answer)
    ELSE IF r.attempt < r.max_retries - 1
         THEN retry(r, answer)
         ELSE return(r, answer, NoResponse)

RequestWithRetry ==
    \E max_retries \in 0..MaxRetries, backoff \in Backoffs :
        /\ rq.pc # "loop"
        /\ rq' = [RqIdle EXCEPT !.pc = "loop", !.max_retries = max_retries,
                                !.backoff = backoff]
        /\ UNCHANGED <<cacheVars, batch, last_fund, call, poll, procVars>>

Attempt ==
    \E answer \in Answers :
        /\ rq.pc = "loop"
        /\ rq.attempt < rq.max_retries
        /\ rq' = attempt_body(rq, answer)
        /\ UNCHANGED <<cacheVars, batch, last_fund, call, poll, procVars>>

\* the loop ran out of attempts without returning
Exhausted ==
    /\ rq.pc = "loop"
    /\ rq.attempt >= rq.max_retries
    /\ rq' = [rq EXCEPT !.pc = "returned", !.val = NoResponse]
    /\ UNCHANGED <<cacheVars, batch, last_fund, call, poll, procVars>>

(***************************************************************************)
(* procesar_fondos_mutuos: one fund through Fintual, CMF, the brochure     *)
(* retrieval and the extraction.  What the outside world does for that     *)
(* fund is the input `w`.                                                  *)
(***************************************************************************)
FondoIds == {"fondo_a", "banchile 8638-1"}

ErrFintual == "No se obtuvieron datos de Fintual"

ErrCmf == "Fondo no encontrado en CMF"

\* fondo_id.replace('_', ' ').title()
title(fondo_id) ==
    CASE fondo_id = "fondo_a" -> "Fondo A"
      [] fondo_id = "banchile 8638-1" -> "Banchile 8638-1"

\* re.search(r'\b(\d{4,6}-[\dkK])\b', fondo_id)
run_match(fondo_id) == IF fondo_id = "banchile 8638-1" THEN "8638-1" ELSE None

\* run.split('-')[0]
rut_base_of(run) == IF run = "8638-1" THEN "8638" ELSE run

\* python truthiness of an optional string
truthy(x) == x \notin {None, ""}

or(x, y) == IF truthy(x) THEN x ELSE y

NoWorld ==
    [raises |-> None, fintual |-> FALSE, cmf_rut |-> None, estado |-> "Vigente",
     page_url |-> FALSE, sel |-> <<"nodriver">>, pdf_procesado |-> FALSE]

\* what the browser does in a batch: no brochure link, or a brochure
BatchSelenium == {<<"nolink">>, <<"%PDF", 1>>}

\* cmf_rut: None when CMF does not list the fund, else the `rut` of its entry;
\* raises: the phase in which an exception escapes, if any
Worlds ==
    {[NoWorld EXCEPT !.raises = ph] : ph \in {"__init__", "fase1"}}
        \cup {[NoWorld EXCEPT !.raises = ph, !.fintual = f] :
                ph \in {None, "fase5"}, f \in BOOLEAN}
        \cup {[NoWorld EXCEPT !.fintual = f, !.cmf_rut = c, !.estado = "Liquidado"] :
                f \in BOOLEAN, c \in {"", "8638"}}
        \cup {[NoWorld EXCEPT !.fintual = f, !.cmf_rut = "8638", !.pdf_procesado = e] :
                f \in BOOLEAN, e \in BOOLEAN}
        \cup {[NoWorld EXCEPT !.fintual = f, !.cmf_rut = "8638", !.page_url = TRUE,
                              !.sel = x, !.pdf_procesado = e] :
                f \in BOOLEAN, x \in BatchSelenium, e \in BOOLEAN}

NoSources == [k \in {} |-> None]

sources(data_sources, fields, origin) ==
    [k \in DOMAIN data_sources \cup fields |->
        IF k \in fields THEN origin ELSE data_sources[k]]

resultado0(fondo_id) ==
    [fondo_id |-> fondo_id, nombre |-> None, nombre_cmf |-> None, run |-> None,
     rut_base |-> None, tipo_fondo |-> None, perfil_riesgo |-> None,
     composicion_portafolio |-> <<>>, estado_fondo |-> None, fuente_cmf |-> FALSE,
     scraping_success |-> FALSE, error |-> None, data_sources |-> NoSources]

\* Fase 1
fase1(r, w) ==
    IF w.fintual
    THEN [r EXCEPT !.nombre = "Fondo A", !.run = "8638-1", !.rut_base = "8638",
                   !.data_sources = sources(@, {"nombre", "run", "rut_base"},
                                            "Fintual API")]
    ELSE LET r1 == [r EXCEPT !.nombre = title(r.fondo_id), !.error = ErrFintual]
             run == run_match(r.fondo_id)
         IN IF run # None
            THEN [r1 EXCEPT !.run = run, !.rut_base = rut_base_of(run),
                            !.data_sources = sources(@, {"run", "rut_base"},
                                                     "Nombre del fondo")]
            ELSE r1

\* Fase 2, up to the decision about the brochure
fase2_cmf(r, w) ==
    LET r1 == [r EXCEPT !.nombre_cmf = "FONDO MUTUO A", !.fuente_cmf = TRUE,
                        !.scraping_success = TRUE,
                        !.data_sources = sources(@, {"nombre_cmf", "rut_cmf", "url_cmf"},
                                                 "CMF Scraping")]
        r2 == IF truthy(w.cmf_rut)
              THEN [r1 EXCEPT !.run = w.cmf_rut, !.rut_base = rut_base_of(w.cmf_rut),
                              !.data_sources = sources(@, {"run", "rut_base"},
                                                       "CMF Scraping")]
              ELSE r1
        r3 == IF r2.error = ErrFintual THEN [r2 EXCEPT !.error = None] ELSE r2
    IN IF truthy(or(w.cmf_rut, r3.rut_base))
       THEN [r3 EXCEPT !.estado_fondo = w.estado]
       ELSE r3

\* the transfer of the extracted fields into the record
fase2_pdf(r, w) ==
    IF w.pdf_procesado
    THEN LET r1 == [r EXCEPT !.tipo_fondo = "Renta Fija", !.perfil_riesgo = "Bajo",
                             !.composicion_portafolio = <<"Bonos">>,
                             !.data_sources = sources(@, {"tipo_fondo", "perfil_riesgo",
                                                          "composicion_portafolio"},
                                                      "PDF")]
         IN IF r1.error = ErrFintual THEN [r1 EXCEPT !.error = None] ELSE r1
    ELSE r

fase2_not_found(r) ==
    LET existing_error == or(r.error, "")
        combined_error == IF truthy(existing_error)
                          THEN existing_error \o " | " \o ErrCmf
                          ELSE ErrCmf
    IN [r EXCEPT !.fuente_cmf = FALSE, !.tipo_fondo = None, !.perfil_riesgo = None,
                 !.composicion_portafolio = <<>>, !.error = combined_error]

\* what the method reports besides the record: the cache state it leaves, whether
\* the retriever was called, what it returned, and whether the extractor ran
outcome(cs, resultado, got, extracted) ==
    [cs |-> cs, resultado |-> resultado, saved |-> got.saved, retrieved |-> got.called,
     pdf_path |-> got.val, extracted |-> extracted]

NotRetrieved == [called |-> FALSE, val |-> None, saved |-> FALSE]

\* `if pdf_path:` and what follows
after_download(r, w, got) ==
    IF got.val # None
    THEN outcome(got.cs, fase2_pdf(r, w), got, TRUE)
    ELSE outcome(got.cs, r, got, FALSE)

\* the brochure of a fund found in CMF: skipped, or retrieved and extracted
brochure(cs, t, ttl, r, w) ==
    LET estado_fondo == IF r.estado_fondo = None THEN "Desconocido" ELSE r.estado_fondo
        skip_pdf == estado_fondo \in {"Liquidado", "Fusionado"}
        rut_para_pdf == or(w.cmf_rut, r.rut_base)
    IN IF skip_pdf \/ ~truthy(rut_para_pdf)
       THEN outcome(cs, r, NotRetrieved, FALSE)
       ELSE after_download(r, w,
                [called |-> TRUE] @@
                download_pdf_from_cmf_improved(cs, t, ttl, rut_para_pdf, w.page_url, w.sel))

\* Fase 2 on the record Fase 1 left
fase2(cs, t, ttl, r, w) ==
    IF w.cmf_rut = None
    THEN outcome(cs, fase2_not_found(r), NotRetrieved, FALSE)
    ELSE brochure(cs, t, ttl, fase2_cmf(r, w), w)

\* Fase 3 and Fase 5, in which an exception may escape
fase5(done, w) ==
    IF w.raises = "fase5" THEN [done EXCEPT !.resultado.error = "boom"] ELSE done

\* the method, on a processor whose cache state is cs
procesar_fondos_mutuos(cs, t, ttl, fondo_id, w) ==
    IF w.raises = "fase1"
    THEN outcome(cs, [resultado0(fondo_id) EXCEPT !.error = "boom"], NotRetrieved, FALSE)
    ELSE fase5(fase2(cs, t, ttl, fase1(resultado0(fondo_id), w), w), w)

(***************************************************************************)
(* main.py: procesar_fondo and the loop of procesar_batch_fondos.          *)
(***************************************************************************)
output_file(fondo_id) == "outputs/fondo_" \o fondo_id \o "_data.json"

\* the module-level procesar_fondos_mutuos builds a new processor for every fund;
\* procesar_fondo wraps it and saves the record of a fund without error
procesar_fondo(cs, t, ttl, fondo_id, w) ==
    IF w.raises = "__init__"
    THEN outcome(cs, [error |-> "Error inesperado procesando fondo " \o fondo_id
                                    \o ": " \o "boom",
                      fondo_id |-> fondo_id],
                 NotRetrieved, FALSE)
    ELSE procesar_fondos_mutuos(clean_expired_cache([cs EXCEPT !.stats = NoStats], t),
                                t, ttl, fondo_id, w)

BatchIdle ==
    [pc |-> "idle", fondos_ids |-> <<>>, i |-> 0, exitosos |-> <<>>, fallidos |-> <<>>,
     resumen |-> [total |-> 0, exitosos |-> 0, fallidos |-> 0], outputs |-> {}]

NoFund ==
    [retrieved |-> FALSE, pdf_path |-> None, extracted |-> FALSE,
     resultado |-> [error |-> None, fondo_id |-> None]]

\* of a record appended to 'exitosos' or 'fallidos' the model keeps the fund and the error
listed(resultado) == [fondo_id |-> resultado.fondo_id, error |-> resultado.error]

FundLists == UNION {[1..n -> FondoIds] : n \in 0..MaxFunds}

ProcesarBatchFondos ==
    \E fondos_ids \in FundLists :
        /\ batch.pc = "idle"
        /\ batch' = [BatchIdle EXCEPT !.pc = "loop", !.fondos_ids = fondos_ids,
                                      !.resumen.total = Len(fondos_ids)]
        /\ UNCHANGED <<cacheVars, rq, last_fund, call, poll, procVars>>

\* one iteration of the loop: procesar_fondo, which saves the record of a fund without
\* error, then the record goes to one of the two lists
ProcesarFondo ==
    \E w \in Worlds :
        /\ batch.pc = "loop"
        /\ batch.i < Len(batch.fondos_ids)
        /\ \E res \in {procesar_fondo(CS, now, cache_expiration_days,
                                      batch.fondos_ids[batch.i + 1], w)} :
              /\ batch' = IF truthy(res.resultado.error)
                          THEN [batch EXCEPT !.i = @ + 1,
                                             !.fallidos = Append(@, listed(res.resultado)),
                                             !.resumen.fallidos = @ + 1]
                          ELSE [batch EXCEPT !.i = @ + 1,
                                             !.exitosos = Append(@, listed(res.resultado)),
                                             !.resumen.exitosos = @ + 1,
                                             !.outputs = @ \cup
                                                 {output_file(res.resultado.fondo_id)}]
              /\ last_fund' = [retrieved |-> res.retrieved, pdf_path |-> res.pdf_path,
                               extracted |-> res.extracted, resultado |-> res.resultado]
              /\ Commit(res.cs)
              \* every fund of the model has the rut 8638
              /\ NoteStore(res.saved, cache_key("8638", "UNICA"), res.cs)
              /\ ret' = Returned("procesar_fondo", None, None, FALSE, FALSE)
              /\ UNCHANGED <<now, cache_expiration_days, calls, rq, io_log, call, poll, procVars>>

\* after the last fund: the summary is saved and returned
BatchReturn ==
    /\ batch.pc = "loop"
    /\ batch.i >= Len(batch.fondos_ids)
    /\ batch' = [batch EXCEPT !.pc = "returned",
                              !.outputs = @ \cup {"outputs/batch_fondos_resumen.json"}]
    /\ UNCHANGED <<cacheVars, rq, last_fund, call, poll, procVars>>

(***************************************************************************)
(* The cache methods when reading or writing the index file fails.  io     *)
(* says what fails during the call: nothing, the read of the index (open   *)
(* or json.load), or the write of it.  The *_body operators are the try    *)
(* blocks, the *_except operators the handlers around them.                *)
(***************************************************************************)
IOFaults == {"ok", "read_error", "write_error"}

NoErrors == [lookup |-> FALSE, store |-> FALSE, sweep |-> FALSE, raised |-> FALSE]

get_cached_pdf_body(cs, t, rut, serie, io) ==
    IF io = "read_error"
    THEN [cs |-> cs, val |-> None, raised |-> TRUE]
    ELSE IF io = "write_error" /\ get_cached_pdf(cs, t, rut, serie).cs.index # cs.index
    THEN [cs |-> [cs EXCEPT !.files = get_cached_pdf(cs, t, rut, serie).cs.files],
          val |-> None, raised |-> TRUE]
    ELSE [raised |-> FALSE] @@ get_cached_pdf(cs, t, rut, serie)

get_cached_pdf_reraise(b) == [erred |-> b.raised] @@ b

get_cached_pdf_except(b) ==
    IF b.raised
    THEN [cs |-> bump(b.cs, "misses"), val |-> None, raised |-> FALSE, erred |-> TRUE]
    ELSE [erred |-> FALSE] @@ b

get_cached_pdf_io(cs, t, rut, serie, io) ==
    get_cached_pdf_except(get_cached_pdf_body(cs, t, rut, serie, io))

\* the index file is absent: `return None` before any counter is touched
get_cached_pdf_no_index(cs) == [cs |-> cs, val |-> None, raised |-> FALSE, erred |-> FALSE]

\* the blob is copied before the index is read
save_to_cache_body(cs, t, ttl, rut, serie, pdf_path, io) ==
    IF io # "ok" /\ pdf_path # NoFile
    THEN [cs |-> [cs EXCEPT !.files =
                      save_to_cache(cs, t, ttl, rut, serie, pdf_path).cs.files],
          val |-> FALSE, raised |-> TRUE]
    ELSE [raised |-> FALSE] @@ save_to_cache(cs, t, ttl, rut, serie, pdf_path)

save_to_cache_except(b) ==
    IF b.raised
    THEN [cs |-> b.cs, val |-> FALSE, raised |-> FALSE, erred |-> TRUE]
    ELSE [erred |-> FALSE] @@ b

save_to_cache_io(cs, t, ttl, rut, serie, pdf_path, io) ==
    save_to_cache_except(save_to_cache_body(cs, t, ttl, rut, serie, pdf_path, io))

\* the blobs of the expired entries are removed before the index is written
clean_expired_cache_body(cs, t, io) ==
    IF io = "read_error"
    THEN [cs |-> cs, raised |-> TRUE]
    ELSE IF io = "write_error" /\ expired_keys(cs.index, t) # {}
    THEN [cs |-> [cs EXCEPT !.files = clean_expired_cache(cs, t).files], raised |-> TRUE]
    ELSE [cs |-> clean_expired_cache(cs, t), raised |-> FALSE]

clean_expired_cache_except(b) ==
    IF b.raised
    THEN [cs |-> b.cs, raised |-> FALSE, erred |-> TRUE]
    ELSE [erred |-> FALSE] @@ b

clean_expired_cache_io(cs, t, io) ==
    clean_expired_cache_except(clean_expired_cache_body(cs, t, io))

\* the return of the downloaded path, whatever the store sv did
improved_after_store(sv, got, lk) ==
    [cs |-> sv.cs, val |-> got.val, http |-> TRUE, browser |-> got.browser,
     saved |-> sv.val, lookup |-> lk.erred, store |-> sv.erred]

\* _download_pdf_from_cmf_improved after its lookup lk: the download, the store, and
\* the handler around the whole method
improved_after_lookup(lk, t, ttl, rut, page_url, sel, io) ==
    IF lk.raised
    THEN [cs |-> lk.cs, val |-> None, http |-> FALSE, browser |-> FALSE,
          saved |-> FALSE, lookup |-> lk.erred, store |-> FALSE]
    ELSE IF found(lk)
    THEN [cs |-> lk.cs, val |-> lk.val, http |-> FALSE, browser |-> FALSE,
          saved |-> FALSE, lookup |-> lk.erred, store |-> FALSE]
    ELSE IF ~page_url \/ download_pdf_with_selenium(rut, sel).val = None
    THEN [cs |-> bump(lk.cs, "downloads"), val |-> None, http |-> TRUE,
          browser |-> page_url /\ download_pdf_with_selenium(rut, sel).browser,
          saved |-> FALSE, lookup |-> lk.erred, store |-> FALSE]
    ELSE improved_after_store(
             save_to_cache_io(bump(lk.cs, "downloads"), t, ttl, rut, "UNICA",
                              download_pdf_with_selenium(rut, sel).bytes, io),
             download_pdf_with_selenium(rut, sel), lk)

download_pdf_from_cmf_improved_io(cs, t, ttl, rut, page_url, sel, io_lookup, io_store) ==
    improved_after_lookup(get_cached_pdf_io(cs, t, rut, "UNICA", io_lookup),
                          t, ttl, rut, page_url, sel, io_store)

GetCachedPdfIO ==
    \E rut \in Ruts, serie \in Series, io \in IOFaults :
        \E res \in {get_cached_pdf_io(CS, now, rut, serie, io)} :
            /\ Call2(MaxFaultCalls)
            /\ Commit(res.cs)
            /\ ret' = Returned("get_cached_pdf", cache_key(rut, serie), res.val,
                               FALSE, FALSE)
            /\ io_log' = [NoErrors EXCEPT !.lookup = res.erred, !.raised = res.raised]
            /\ UNCHANGED <<now, cache_expiration_days, stored, ext_deleted>>

\* a lookup, whether or not the index file is there
GetCachedPdfIndex ==
    \E rut \in Ruts, serie \in Series, io \in IOFaults :
        \E res \in {IF index_exists THEN get_cached_pdf_io(CS, now, rut, serie, io)
                    ELSE get_cached_pdf_no_index(CS)} :
            /\ Call2(MaxFaultCalls)
            /\ Commit(res.cs)
            /\ ret' = Returned("get_cached_pdf", cache_key(rut, serie), res.val,
                               FALSE, FALSE)
            /\ io_log' = [NoErrors EXCEPT !.lookup = res.erred, !.raised = res.raised]
            /\ UNCHANGED <<now, cache_expiration_days, stored, ext_deleted>>

\* somebody deletes cache/pdf_cache_index.json
ExternalDeleteIndex ==
    /\ index_exists
    /\ index_exists' = FALSE
    /\ cache_index' = EmptyIndex
    /\ ret' = Returned("external_delete", "pdf_cache_index.json", None, FALSE, FALSE)
    /\ UNCHANGED <<now, cache_expiration_days, files, cache_stats, calls, stored,
                    ext_deleted, rq, batch, last_fund, io_log, call, poll, savers,
                    monitor, driver>>

\* _init_cache_system of another processor on the same directory: json.dump({}, f)
InitCacheSystem ==
    /\ ~index_exists
    /\ index_exists' = TRUE
    /\ ret' = Returned("_init_cache_system", None, None, FALSE, FALSE)
    /\ UNCHANGED <<now, cache_expiration_days, cache_index, files, cache_stats, calls,
                    stored, ext_deleted, rq, batch, last_fund, io_log, call, poll, savers,
                    monitor, driver>>

SaveToCacheIO ==
    \E rut \in Ruts, serie \in Series, pdf_path \in PdfBytes \cup {NoFile},
       io \in IOFaults :
        \E res \in {save_to_cache_io(CS, now, cache_expiration_days, rut, serie,
                                     pdf_path, io)} :
            /\ Call2(MaxFaultCalls)
            /\ Commit(res.cs)
            /\ NoteStore(res.val, cache_key(rut, serie), res.cs)
            /\ ret' = Returned("save_to_cache", cache_key(rut, serie), res.val,
                               FALSE, FALSE)
            /\ io_log' = [NoErrors EXCEPT !.store = res.erred, !.raised = res.raised]
            /\ UNCHANGED <<now, cache_expiration_days>>

CleanExpiredCacheIO ==
    \E io \in IOFaults :
        \E res \in {clean_expired_cache_io(CS, now, io)} :
            /\ Call2(MaxFaultCalls)
            /\ Commit(res.cs)
            /\ ret' = Returned("clean_expired_cache", None, None, FALSE, FALSE)
            /\ io_log' = [NoErrors EXCEPT !.sweep = res.erred, !.raised = res.raised]
            /\ UNCHANGED <<now, cache_expiration_days, stored, ext_deleted>>

DownloadPdfFromCmfImprovedIO ==
    \E rut \in Ruts, page_url \in BOOLEAN, sel \in BatchSelenium,
       io_lookup \in IOFaults, io_store \in IOFaults :
        \E res \in {download_pdf_from_cmf_improved_io(CS, now, cache_expiration_days,
                        rut, page_url, sel, io_lookup, io_store)} :
            /\ Call2(MaxFaultCalls)
            /\ Commit(res.cs)
            /\ NoteStore(res.saved, cache_key(rut, "UNICA"), res.cs)
            /\ ret' = Returned("download_pdf_from_cmf_improved", cache_key(rut, "UNICA"),
                               res.val, res.http, res.browser)
            /\ io_log' = [NoErrors EXCEPT !.lookup = res.lookup, !.store = res.store]
            /\ UNCHANGED <<now, cache_expiration_days>>

(***************************************************************************)
(* _extract_extended_data_from_pdf.  The text of a document is the set of  *)
(* the phrases it contains; a pattern fires when its phrase is there.  An  *)
(* integer field holds <<n>>, and <<>> for None.                           *)
(***************************************************************************)
Filenames == {"fondo_8638_A.pdf", "fondo_8638.pdf", "8638.pdf"}

Phrases == {"Serie: B", "Moneda: USD", "R2", "fondo agresivo",
            "inversion a corto plazo", "24 meses"}

\* patrimonio_lines: how many lines of the text read "Patrimonio Serie: $ 1.000"
MaxPatrimonioLines == 4

Documents ==
    [filename : Filenames, texto : SUBSET Phrases,
     patrimonio_lines : 0..MaxPatrimonioLines]

campos_totales == 20

\* group 2 of the first filename pattern that matches, or 'UNICA'
serie_from_filename(filename) ==
    IF filename = "fondo_8638_A.pdf" THEN "A" ELSE "UNICA"

\* the counter of the extractor at its end: one more for each pattern that set a
\* field, and for each line of the loop over the lines that set the patrimonio
campos_extraidos(doc) ==
    Cardinality({p \in doc.texto \ {"Serie: B", "fondo agresivo", "24 meses"} : TRUE})
        + (IF serie_from_filename(doc.filename) = "UNICA" /\ "Serie: B" \in doc.texto
           THEN 1 ELSE 0)
        + (IF "fondo agresivo" \in doc.texto
           THEN (IF "R2" \in doc.texto THEN 1 ELSE 2) ELSE 0)
        + (IF "24 meses" \in doc.texto /\ "inversion a corto plazo" \notin doc.texto
           THEN 1 ELSE 0)
        + doc.patrimonio_lines

extraction_confidence(extraidos) ==
    IF extraidos * 100 >= 70 * campos_totales THEN "high"
    ELSE IF extraidos * 100 >= 40 * campos_totales THEN "medium"
    ELSE "low"

\* serie_fondo: the series of the file name, or of the text when the file name has
\* none; perfil_riesgo: the scale R1-R7 first, then the keywords; horizonte_inversion:
\* the patterns with corto/mediano/largo first, then "N meses"
extract_extended_data_from_pdf(doc) ==
    [rut |-> "8638",
     serie_fondo |->
         IF serie_from_filename(doc.filename) = "UNICA" /\ "Serie: B" \in doc.texto
         THEN "B"
         ELSE serie_from_filename(doc.filename),
     moneda |-> IF "Moneda: USD" \in doc.texto THEN "USD" ELSE None,
     tipo_fondo |-> IF "fondo agresivo" \in doc.texto THEN "Agresivo" ELSE None,
     perfil_riesgo_escala |-> IF "R2" \in doc.texto THEN "R2" ELSE None,
     perfil_riesgo |->
         IF "R2" \in doc.texto THEN "Bajo"
         ELSE IF "fondo agresivo" \in doc.texto THEN "Alto"
         ELSE None,
     horizonte_inversion |->
         IF "inversion a corto plazo" \in doc.texto THEN "Corto Plazo"
         ELSE IF "24 meses" \in doc.texto THEN "Mediano Plazo"
         ELSE None,
     horizonte_inversion_meses |->
         IF "inversion a corto plazo" \in doc.texto THEN <<12>>
         ELSE IF "24 meses" \in doc.texto THEN <<24>>
         ELSE <<>>,
     patrimonio_sede |-> IF doc.patrimonio_lines > 0 THEN <<1000>> ELSE <<>>,
     patrimonio |-> IF doc.patrimonio_lines > 0 THEN <<1000>> ELSE <<>>,
     patrimonio_moneda |->
         IF doc.patrimonio_lines = 0 THEN None
         ELSE IF "Moneda: USD" \in doc.texto THEN "USD"
         ELSE "CLP",
     campos_extraidos |-> campos_extraidos(doc),
     extraction_confidence |-> extraction_confidence(campos_extraidos(doc)),
     pdf_procesado |-> TRUE]

ExtractExtendedDataFromPdf ==
    /\ call.op = "extract_extended_data_from_pdf"
    /\ call.pc = "called"
    /\ call' = [call EXCEPT !.out = extract_extended_data_from_pdf(call.arg),
                            !.pc = "returned"]
    /\ UNCHANGED <<cacheVars, rq, batch, last_fund, poll, procVars>>

(***************************************************************************)
(* The composition of the portfolio, from the lines of the text.  A line   *)
(* is given by what the three regular expressions see in it:               *)
(*   inline  "Treasury Bonds 45,20%"         (pattern 1, and pattern 3)    *)
(*   row     "Bonos Corporativos 15.234 12,50%"  (pattern 2; pattern 3     *)
(*           takes its first number; pattern 1 finds only an empty name)   *)
(*   plain   "Bonos BCP 12,50"               (pattern 3 only)              *)
(*   section "Composicion de la cartera del fondo", end "Rentabilidad",    *)
(*   header  "Instrumento %".                                              *)
(* porcentaje is counted in 1/100000, so that 45,20% is 45200.             *)
(***************************************************************************)
MaxLineas == 4

ComposicionLines ==
    {[kind |-> "inline", activo |-> "Treasury Bonds", monto |-> 0, pct |-> 45200],
     [kind |-> "inline", activo |-> "Corporate Bonds", monto |-> 0, pct |-> 30100],
     [kind |-> "inline", activo |-> "Equities", monto |-> 0, pct |-> 24700],
     [kind |-> "row", activo |-> "Bonos Corporativos", monto |-> 15234, pct |-> 12500],
     [kind |-> "plain", activo |-> "Bonos BCP", monto |-> 0, pct |-> 12500],
     [kind |-> "section", activo |-> None, monto |-> 0, pct |-> 0],
     [kind |-> "end", activo |-> None, monto |-> 0, pct |-> 0],
     [kind |-> "header", activo |-> None, monto |-> 0, pct |-> 0]}

\* the first category, in the order of the dict, one of whose keywords is in the name
clasificar_activo(nombre_activo) ==
    CASE nombre_activo = "Bonos BCP" -> "Renta Fija Gobierno"
      [] nombre_activo = "Bonos Corporativos" -> "Renta Fija Corporativa"
      [] OTHER -> "Otros"

item_detallado(activo, porcentaje) ==
    [activo |-> activo, porcentaje |-> porcentaje, categoria |-> clasificar_activo(activo)]

RECURSIVE patron1(_)
\* "Activo XX,XX%" on each line
patron1(lineas) ==
    IF lineas = <<>> THEN <<>>
    ELSE (IF Head(lineas).kind = "inline" /\ Head(lineas).pct > 0
          THEN <<item_detallado(Head(lineas).activo, Head(lineas).pct)>>
          ELSE <<>>) \o patron1(Tail(lineas))

RECURSIVE patron2(_, _)
\* the rows of the table inside the composition section
patron2(lineas, en_seccion_composicion) ==
    IF lineas = <<>> THEN <<>>
    ELSE IF Head(lineas).kind = "section" THEN patron2(Tail(lineas), TRUE)
    ELSE (IF en_seccion_composicion /\ Head(lineas).kind = "row" /\ Head(lineas).pct > 0
          THEN <<item_detallado(Head(lineas).activo, Head(lineas).pct)>>
          ELSE <<>>)
         \o patron2(Tail(lineas), en_seccion_composicion /\ Head(lineas).kind # "end")

RECURSIVE patron3(_, _, _)
\* the (at most 30) lines after the first header line
patron3(lineas, anchored, left) ==
    IF lineas = <<>> \/ (anchored /\ left = 0) THEN <<>>
    ELSE IF ~anchored
    THEN patron3(Tail(lineas), Head(lineas).kind = "header", 30)
    ELSE (IF Head(lineas).kind \in {"inline", "plain"} /\ Head(lineas).pct > 0
                /\ Head(lineas).pct <= 100000
          THEN <<item_detallado(Head(lineas).activo, Head(lineas).pct)>>
          ELSE IF Head(lineas).kind = "row" /\ Head(lineas).monto > 0
                    /\ Head(lineas).monto <= 100000
          THEN <<item_detallado(Head(lineas).activo, Head(lineas).monto)>>
          ELSE <<>>)
         \o patron3(Tail(lineas), TRUE, left - 1)

RECURSIVE sort_reverse(_)
\* list.sort(key=porcentaje, reverse=True): stable
sort_reverse(items) ==
    IF items = <<>> THEN <<>>
    ELSE LET rest == sort_reverse(SubSeq(items, 1, Len(items) - 1))
             x == items[Len(items)]
             before == SelectSeq(rest, LAMBDA y : y.porcentaje >= x.porcentaje)
             after == SelectSeq(rest, LAMBDA y : y.porcentaje < x.porcentaje)
         IN before \o <<x>> \o after

\* the first pattern that found an entry; the sort; the two cuts
composicion(lineas) ==
    LET detallada ==
            sort_reverse(IF patron1(lineas) # <<>> THEN patron1(lineas)
                         ELSE IF patron2(lineas, FALSE) # <<>> THEN patron2(lineas, FALSE)
                         ELSE patron3(lineas, FALSE, 30))
        n == Len(detallada)
    IN [composicion_portafolio |->
            [i \in 1..(IF n < 15 THEN n ELSE 15) |->
                [activo |-> detallada[i].activo, porcentaje |-> detallada[i].porcentaje]],
        composicion_detallada |-> SubSeq(detallada, 1, IF n < 20 THEN n ELSE 20)]

ExtractComposicion ==
    /\ call.op = "composicion"
    /\ call.pc = "called"
    /\ call' = [call EXCEPT !.out = composicion(call.arg), !.pc = "returned"]
    /\ UNCHANGED <<cacheVars, rq, batch, last_fund, poll, procVars>>

(***************************************************************************)
(* cmf_monitor.py: generate_health_report, from the statuses of its four   *)
(* checks, and the exit code of run_cmf_monitor.py.                        *)
(***************************************************************************)
CheckStatuses == {"ok", "warning", "critical"}

\* compare_with_baseline also answers 'error'; its 'critical' needs a check of the
\* structure that is critical
SubStatuses ==
    {s \in CheckStatuses \X CheckStatuses \X CheckStatuses
               \X (CheckStatuses \cup {"error"}) :
        s[4] = "critical" => s[1] = "critical"}

overall_status(all_statuses) ==
    IF \E i \in DOMAIN all_statuses : all_statuses[i] = "critical" THEN "critical"
    ELSE IF \E i \in DOMAIN all_statuses : all_statuses[i] = "warning" THEN "warning"
    ELSE IF \E i \in DOMAIN all_statuses : all_statuses[i] = "error" THEN "error"
    ELSE "healthy"

exit_code(status) ==
    IF status = "healthy" THEN 0
    ELSE IF status = "warning" THEN 1
    ELSE 2

generate_health_report(all_statuses) ==
    [status |-> overall_status(all_statuses),
     exit_code |-> exit_code(overall_status(all_statuses))]

GenerateHealthReport ==
    /\ call.op = "generate_health_report"
    /\ call.pc = "called"
    /\ call' = [call EXCEPT !.out = generate_health_report(call.arg),
                            !.pc = "returned"]
    /\ UNCHANGED <<cacheVars, rq, batch, last_fund, poll, procVars>>

(***************************************************************************)
(* cmf_monitor.py: monitor_cmf_structure.  A page is what the checks look  *)
(* for in it; an element with onclick="verFolleto(...)" contains the name  *)
(* verFolleto.                                                             *)
(***************************************************************************)
Pages ==
    {p \in [get : {"ok", "RequestException"}, verFolleto : BOOLEAN, onclick : BOOLEAN,
            ver_folleto_fm_php : BOOLEAN, runFondo : BOOLEAN, serie : BOOLEAN,
            rutAdmin : BOOLEAN] :
        /\ p.onclick => p.verFolleto
        /\ p.get = "RequestException" =>
               ~(p.verFolleto \/ p.ver_folleto_fm_php \/ p.runFondo \/ p.serie
                   \/ p.rutAdmin)}

ErrVerFolleto == "Funcion JavaScript verFolleto() no encontrada"
ErrOnclick == "Atributos onclick con verFolleto() no encontrados"
ErrEndpoint == "Endpoint ver_folleto_fm.php no referenciado"
ErrParams == "parametros esperados encontrados"
ErrConexion == "Error de conexion"

params_found(page) ==
    Cardinality({name \in {"runFondo", "serie", "rutAdmin"} : page[name]})

params_status(n) ==
    IF n >= 2 THEN "ok" ELSE IF n >= 1 THEN "warning" ELSE "critical"

\* CHECK 1 to CHECK 3: a missing element makes the result critical
check_element(result, present, error) ==
    IF present
    THEN result
    ELSE [result EXCEPT !.status = "critical", !.errors = Append(@, error)]

\* CHECK 4
check_parameters(result, n) ==
    IF n < 2
    THEN [result EXCEPT !.status = IF @ = "ok" THEN "warning" ELSE @,
                        !.errors = Append(@, ErrParams),
                        !.expected_parameters = params_status(n)]
    ELSE [result EXCEPT !.expected_parameters = params_status(n)]

monitor_cmf_structure(page) ==
    IF page.get = "RequestException"
    THEN [status |-> "critical", errors |-> <<ErrConexion>>, expected_parameters |-> None]
    ELSE check_parameters(
             check_element(
                 check_element(
                     check_element([status |-> "ok", errors |-> <<>>,
                                    expected_parameters |-> None],
                                   page.verFolleto, ErrVerFolleto),
                     page.onclick, ErrOnclick),
                 page.ver_folleto_fm_php, ErrEndpoint),
             params_found(page))

MonitorCmfStructure ==
    /\ call.op = "monitor_cmf_structure"
    /\ call.pc = "called"
    /\ call' = [call EXCEPT !.out = monitor_cmf_structure(call.arg), !.pc = "returned"]
    /\ UNCHANGED <<cacheVars, rq, batch, last_fund, poll, procVars>>

(***************************************************************************)
(* _wait_for_download_complete, as _download_pdf_with_selenium calls it    *)
(* after the click.  Time is in half seconds, sizes in bytes.  The browser *)
(* writes doc.pdf into the download directory while the loop polls it.     *)
(***************************************************************************)
timeout == 60
min_size_kb == 10

Sizes == {5120, 20480, 40960}

NoPoll ==
    [pc |-> "idle", elapsed |-> 0, dir |-> [f \in {} |-> 0], writing |-> FALSE,
     existing_files |-> {}, last_files |-> {}, all_files |-> {}, pdf_path |-> None,
     initial_size |-> 0, val |-> None, ready |-> FALSE]

\* files_before_download is listed before the click
Polls ==
    {[NoPoll EXCEPT !.pc = "loop", !.dir = [f \in present |-> 40960],
                    !.existing_files = present, !.last_files = present] :
        present \in SUBSET {"old.pdf"}}

\* the browser creates doc.pdf; w: it goes on writing it
Appear ==
    \E size \in Sizes, w \in BOOLEAN :
        /\ poll.pc \in {"loop", "sleep"}
        /\ "doc.pdf" \notin DOMAIN poll.dir
        /\ poll' = [poll EXCEPT !.dir = [f \in DOMAIN @ \cup {"doc.pdf"} |->
                                            IF f = "doc.pdf" THEN size ELSE @[f]],
                                !.writing = w,
                                !.ready = ~w /\ poll.elapsed + 6 <= 2 * timeout]
        /\ UNCHANGED <<cacheVars, rq, batch, last_fund, call, procVars>>

\* the browser writes more of doc.pdf; w: it goes on writing it
Grow ==
    \E size \in Sizes, w \in BOOLEAN :
        /\ poll.pc \in {"loop", "sleep"}
        /\ poll.writing
        /\ size > poll.dir["doc.pdf"]
        /\ poll' = [poll EXCEPT !.dir["doc.pdf"] = size,
                                !.writing = w,
                                !.ready = ~w /\ poll.elapsed + 6 <= 2 * timeout]
        /\ UNCHANGED <<cacheVars, rq, batch, last_fund, call, procVars>>

\* the browser closes doc.pdf as it is
Finish ==
    /\ poll.pc \in {"loop", "sleep"}
    /\ poll.writing
    /\ poll' = [poll EXCEPT !.writing = FALSE,
                            !.ready = poll.elapsed + 6 <= 2 * timeout]
    /\ UNCHANGED <<cacheVars, rq, batch, last_fund, call, procVars>>

\* the files of the directory that end with .pdf and are not in last_files
new_pdfs(dir, last_files) == {f \in DOMAIN dir : f \in {"old.pdf", "doc.pdf"}} \ last_files

\* an iteration that finds no new PDF
PollNothing ==
    /\ poll.pc = "loop"
    /\ poll.elapsed < 2 * timeout
    /\ new_pdfs(poll.dir, poll.last_files) = {}
    /\ poll' = [poll EXCEPT !.last_files = DOMAIN poll.dir, !.elapsed = @ + 1]
    /\ UNCHANGED <<cacheVars, rq, batch, last_fund, call, procVars>>

\* an iteration that finds a new PDF: the first sample of its size
PollSample ==
    \E f \in new_pdfs(poll.dir, poll.last_files) :
        /\ poll.pc = "loop"
        /\ poll.elapsed < 2 * timeout
        /\ poll' = [poll EXCEPT !.pc = "sleep", !.all_files = DOMAIN poll.dir,
                                !.pdf_path = f, !.initial_size = poll.dir[f]]
        /\ UNCHANGED <<cacheVars, rq, batch, last_fund, call, procVars>>

\* one second later: the second sample, and the return or the end of the iteration
PollCompare ==
    /\ poll.pc = "sleep"
    /\ poll' = IF /\ poll.dir[poll.pdf_path] = poll.initial_size
                  /\ poll.dir[poll.pdf_path] > min_size_kb * 1024
               THEN [poll EXCEPT !.pc = "returned", !.val = poll.pdf_path,
                                 !.elapsed = @ + 2]
               ELSE [poll EXCEPT !.pc = "loop", !.last_files = poll.all_files,
                                 !.elapsed = @ + 3]
    /\ UNCHANGED <<cacheVars, rq, batch, last_fund, call, procVars>>

PollTimeout ==
    /\ poll.pc = "loop"
    /\ poll.elapsed >= 2 * timeout
    /\ poll' = [poll EXCEPT !.pc = "returned", !.val = None]
    /\ UNCHANGED <<cacheVars, rq, batch, last_fund, call, procVars>>

(***************************************************************************)
(* _get_fintual_data: the search in the listing of the API.  A string is   *)
(* the sequence of its characters.                                         *)
(***************************************************************************)
MaxListing == 2

\* str.lower()
lower(s) == [i \in DOMAIN s |-> IF s[i] = "A" THEN "a" ELSE s[i]]

\* `sub in s`; the empty string is in every string
contains(sub, s) ==
    \E i \in 1..(Len(s) + 1) :
        /\ i + Len(sub) - 1 <= Len(s)
        /\ SubSeq(s, i, i + Len(sub) - 1) = sub

\* the attributes of the listing; a record without 'name' or 'symbol' reads as ''
Fondos ==
    [name : {<<>>, <<"a">>, <<"b">>, <<"a", "b">>, <<"A", "b">>}, symbol : {<<>>, <<"a">>}]

Listings == UNION {[1..n -> Fondos] : n \in 0..MaxListing}

matches(fondo_id_lower, fondo) ==
    \/ contains(fondo_id_lower, lower(fondo.name))
    \/ contains(fondo_id_lower, lower(fondo.symbol))
    \/ contains(lower(fondo.name), fondo_id_lower)

\* the loop with its break: the first fund of the listing that matches, 0 if none
fondo_encontrado(fondo_id, fondos) ==
    IF \E i \in DOMAIN fondos : matches(lower(fondo_id), fondos[i])
    THEN CHOOSE i \in DOMAIN fondos :
             /\ matches(lower(fondo_id), fondos[i])
             /\ \A j \in 1..(i - 1) : ~matches(lower(fondo_id), fondos[j])
    ELSE 0

\* found: a fund is returned, and not None
get_fintual_data(fondo_id, fondos) ==
    IF fondo_encontrado(fondo_id, fondos) = 0
    THEN [found |-> FALSE, index |-> 0, nombre |-> <<>>, symbol |-> <<>>]
    ELSE [found |-> TRUE, index |-> fondo_encontrado(fondo_id, fondos),
          nombre |-> fondos[fondo_encontrado(fondo_id, fondos)].name,
          symbol |-> fondos[fondo_encontrado(fondo_id, fondos)].symbol]

GetFintualData ==
    /\ call.op = "get_fintual_data"
    /\ call.pc = "called"
    /\ call' = [call EXCEPT !.out = get_fintual_data(call.arg.fondo_id, call.arg.fondos),
                            !.pc = "returned"]
    /\ UNCHANGED <<cacheVars, rq, batch, last_fund, poll, procVars>>

(***************************************************************************)
(* CMFMonitor: one health-check cycle step by step, and the baseline file. *)
(* Reads and writes of cache/cmf_baseline.json succeed.                    *)
(***************************************************************************)
\* the page of the test fund as the structure probe sees it
ProbedPages ==
    {p \in [get : {"ok", "RequestException"}, verFolleto : BOOLEAN, onclick : BOOLEAN,
            ver_folleto_fm_php : BOOLEAN, runFondo : BOOLEAN, serie : {TRUE},
            rutAdmin : {FALSE}, onclick_count : 0..2, tabla : BOOLEAN] :
        /\ p.onclick = (p.onclick_count > 0)
        /\ p.onclick => p.verFolleto
        /\ p.ver_folleto_fm_php = p.verFolleto
        /\ p.get = "RequestException" =>
               ~(p.verFolleto \/ p.runFondo \/ p.tabla)}

CheckNames ==
    <<"javascript_function", "onclick_attributes", "endpoint_reference",
      "expected_parameters", "series_table">>

\* result['checks'] and result['html_snapshot'] of monitor_cmf_structure
structure_result(page) ==
    [status |-> monitor_cmf_structure(page).status,
     html_snapshot |-> IF page.get = "ok" THEN <<"md5", page>> ELSE <<>>,
     checks |->
         IF page.get # "ok"
         THEN [name \in {} |-> None]
         ELSE [name \in {CheckNames[i] : i \in 1..Len(CheckNames)} |->
                  CASE name = "javascript_function" ->
                           [status |-> IF page.verFolleto THEN "ok" ELSE "critical",
                            count |-> 0]
                    [] name = "onclick_attributes" ->
                           [status |-> IF page.onclick THEN "ok" ELSE "critical",
                            count |-> page.onclick_count]
                    [] name = "endpoint_reference" ->
                           [status |-> IF page.ver_folleto_fm_php THEN "ok" ELSE "critical",
                            count |-> 0]
                    [] name = "expected_parameters" ->
                           [status |-> params_status(params_found(page)), count |-> 0]
                    [] OTHER ->
                           [status |-> IF page.tabla THEN "ok" ELSE "warning",
                            count |-> 0]]]

check_endpoint_availability(response) ==
    CASE response = "ERROR" -> [status |-> "critical", response_format |-> "error"]
      [] response = "pdf_path" -> [status |-> "ok", response_format |-> "pdf_path"]
      [] response = "unknown" -> [status |-> "warning", response_format |-> "unknown"]
      [] OTHER -> [status |-> "critical", response_format |-> None]

validate_pdf_download(download) ==
    CASE download = "%PDF" -> [status |-> "ok", is_valid_pdf |-> TRUE]
      [] download = "small %PDF" -> [status |-> "warning", is_valid_pdf |-> TRUE]
      [] OTHER -> [status |-> "critical", is_valid_pdf |-> FALSE]

\* a comparison that looks at no check
check_changes_none(baseline_checks, current_checks, i) == <<>>

RECURSIVE check_changes(_, _, _)
\* for check_name, current_data in current_checks.items(), from the i-th check on
check_changes(baseline_checks, current_checks, i) ==
    IF i > Len(CheckNames)
    THEN <<>>
    ELSE LET check_name == CheckNames[i]
             rest == check_changes(baseline_checks, current_checks, i + 1)
         IN IF check_name \notin DOMAIN current_checks
            THEN rest
            ELSE LET known == check_name \in DOMAIN baseline_checks
                     old_status == IF known THEN baseline_checks[check_name].status ELSE None
                     new_status == current_checks[check_name].status
                     old_count == IF known THEN baseline_checks[check_name].count ELSE 0
                     new_count == current_checks[check_name].count
                 IN (IF old_status # new_status
                     THEN <<[type |-> "check_status_change", check |-> check_name,
                             severity |-> IF new_status = "critical" THEN "critical"
                                          ELSE "warning"]>>
                     ELSE <<>>)
                    \o (IF check_name = "onclick_attributes" /\ old_count # new_count
                        THEN <<[type |-> "onclick_count_change", check |-> check_name,
                                severity |-> "warning"]>>
                        ELSE <<>>)
                    \o rest

\* a comparison that stores the current snapshot as the new baseline every time
compare_rebaseline(baseline_file, current_structure) ==
    [file |-> <<current_structure>>,
     result |-> [status |-> "ok", baseline_exists |-> baseline_file # <<>>,
                 changes_detected |-> <<>>, new_baseline_created |-> TRUE]]

\* baseline_file: <<>> when cache/cmf_baseline.json does not exist, else <<its content>>
compare_with_baseline(baseline_file, current_structure) ==
    IF baseline_file = <<>>
    THEN [file |-> <<current_structure>>,
          result |-> [status |-> "ok", baseline_exists |-> FALSE,
                      changes_detected |-> <<>>, new_baseline_created |-> TRUE]]
    ELSE LET baseline == baseline_file[1]
             changes ==
                 (IF baseline.html_snapshot # current_structure.html_snapshot
                  THEN <<[type |-> "html_structure_change", check |-> None,
                          severity |-> "warning"]>>
                  ELSE <<>>)
                 \o check_changes(baseline.checks, current_structure.checks, 1)
         IN [file |-> baseline_file,
             result |-> [status |-> IF changes = <<>> THEN "ok"
                                    ELSE IF \E i \in 1..Len(changes) :
                                                changes[i].severity = "critical"
                                    THEN "critical" ELSE "warning",
                         baseline_exists |-> TRUE, changes_detected |-> changes,
                         new_baseline_created |-> FALSE]]

\* pc: the step that has just run; caller: main of run_cmf_monitor.py runs the four
\* checks itself before it calls generate_health_report.  first and against are
\* history: the snapshot stored by the first comparison that found no baseline, and
\* the baseline the last comparison loaded.
NoMonitor ==
    [pc |-> "idle", caller |-> None, baseline_file |-> <<>>, structure_result |-> <<>>,
     endpoint_result |-> <<>>, pdf_result |-> <<>>, baseline_result |-> <<>>,
     report |-> <<>>, first |-> <<>>, against |-> <<>>]

MonitorFrame ==
    UNCHANGED <<cacheVars, rq, batch, last_fund, call, poll, savers, driver, index_exists>>

\* structure_result = self.monitor_cmf_structure(): the first step, of a cycle or of main
MonitorStructure ==
    \E page \in ProbedPages, caller \in {"main", "generate_health_report"} :
        /\ \/ monitor.pc \in {"idle", "report"}
           \/ monitor.pc = "baseline" /\ monitor.caller = "main"
                  /\ caller = "generate_health_report"
        /\ monitor' = [monitor EXCEPT !.pc = "structure", !.caller = caller,
                           !.structure_result = <<structure_result(page)>>,
                           !.endpoint_result = <<>>, !.pdf_result = <<>>,
                           !.baseline_result = <<>>, !.report = <<>>]
        /\ MonitorFrame

\* a cycle that stops after a critical structure probe
MonitorEndpointStop ==
    \E response \in {"pdf_path", "ERROR", "unknown", "RequestException"} :
        /\ monitor.pc = "structure"
        /\ monitor.structure_result[1].status # "critical"
        /\ monitor' = [monitor EXCEPT !.pc = "endpoint",
                           !.endpoint_result = <<check_endpoint_availability(response)>>]
        /\ MonitorFrame

MonitorEndpoint ==
    \E response \in {"pdf_path", "ERROR", "unknown", "RequestException"} :
        /\ monitor.pc = "structure"
        /\ monitor' = [monitor EXCEPT !.pc = "endpoint",
                           !.endpoint_result = <<check_endpoint_availability(response)>>]
        /\ MonitorFrame

MonitorPdf ==
    \E download \in {"%PDF", "small %PDF", "<htm", "ERROR", "RequestException"} :
        /\ monitor.pc = "endpoint"
        /\ monitor' = [monitor EXCEPT !.pc = "pdf",
                           !.pdf_result = <<validate_pdf_download(download)>>]
        /\ MonitorFrame

MonitorBaseline ==
    /\ monitor.pc = "pdf"
    /\ \E compared \in {compare_with_baseline(monitor.baseline_file,
                                              monitor.structure_result[1])} :
        /\ monitor' = [monitor EXCEPT !.pc = "baseline",
                           !.baseline_file = compared.file,
                           !.baseline_result = <<compared.result>>,
                           !.against = monitor.baseline_file,
                           !.first = IF monitor.baseline_file = <<>> /\ @ = <<>>
                                     THEN monitor.structure_result ELSE @]
        /\ MonitorFrame

\* the consolidation: overall status, and the detail of each check
MonitorReport ==
    /\ monitor.pc = "baseline"
    /\ monitor.caller = "generate_health_report"
    /\ monitor' = [monitor EXCEPT !.pc = "report",
           !.report =
               <<[status |-> generate_health_report(
                                 <<monitor.structure_result[1].status,
                                   monitor.endpoint_result[1].status,
                                   monitor.pdf_result[1].status,
                                   monitor.baseline_result[1].status>>).status,
                  detailed_results |->
                      [structure |-> monitor.structure_result[1],
                       endpoint |-> monitor.endpoint_result[1],
                       pdf |-> monitor.pdf_result[1],
                       baseline |-> monitor.baseline_result[1]]]>>]
    /\ MonitorFrame

(***************************************************************************)
(* _download_pdf_with_selenium as steps: the browsers it starts and quits. *)
(* launched: browsers started by the call in progress; running: browsers   *)
(* started and not yet quit; exits: how the calls so far ended.            *)
(***************************************************************************)
MaxBrowserCalls == 3

NoDriver ==
    [pc |-> "idle", launched |-> 0, running |-> 0, val |-> None, raised |-> FALSE,
     exits |-> <<>>]

DriverFrame ==
    UNCHANGED <<cacheVars, rq, batch, last_fund, call, poll, savers, monitor,
                index_exists>>

DriverCall ==
    /\ driver.pc \in {"idle", "returned"}
    /\ Len(driver.exits) < MaxBrowserCalls
    /\ driver' = [driver EXCEPT !.pc = "setup", !.launched = 0, !.val = None,
                                !.raised = FALSE]
    /\ DriverFrame

\* the imports, the options, driver = webdriver.Chrome(...): with the outer handlers
DriverLaunch ==
    \E how \in {"started", "ImportError", "Exception"} :
        /\ driver.pc = "setup"
        /\ driver' = IF how = "started"
                     THEN [driver EXCEPT !.pc = "session", !.launched = @ + 1,
                                         !.running = @ + 1]
                     ELSE [driver EXCEPT !.pc = "returned", !.val = None,
                                         !.exits = Append(@, how)]
        /\ DriverFrame

\* the try block around the session: navigation, the search of the link, the click and
\* the wait for the download
DriverSession ==
    \E how \in {<<"exception navigating">>, <<"nolink">>, <<"exception clicking">>,
                    <<"timeout">>} \cup PdfBytes :
        /\ driver.pc = "session"
        /\ driver' = [driver EXCEPT !.pc = "finally",
                          !.val = IF how \in PdfBytes THEN folleto_path("8638")
                                  ELSE None,
                          !.raised = how \in {<<"exception navigating">>,
                                                  <<"exception clicking">>},
                          !.exits = Append(@, how[1])]
        /\ DriverFrame

\* a finally that is skipped when the session raised
DriverQuitUnlessRaised ==
    /\ driver.pc = "finally"
    /\ driver' = [driver EXCEPT !.pc = "returned",
                                !.running = IF driver.raised THEN @ ELSE @ - 1,
                                !.val = IF driver.raised THEN None ELSE @]
    /\ DriverFrame

\* finally: driver.quit(); then the return, or the outer `except Exception`
DriverQuit ==
    /\ driver.pc = "finally"
    /\ driver' = [driver EXCEPT !.pc = "returned", !.running = @ - 1,
                                !.val = IF driver.raised THEN None ELSE @]
    /\ DriverFrame

(***************************************************************************)
(* Two processor instances on one cache directory, each in _save_to_cache. *)
(* The store is three steps on the shared files: copy the blob, read the   *)
(* index file into a local dict, write the local dict back.                *)
(***************************************************************************)
Savers == {1, 2}

\* the fund each processor stores
saver_serie == [p \in Savers |-> IF p = 1 THEN "UNICA" ELSE "A"]

NoSavers ==
    [p \in Savers |-> [pc |-> "idle", metadata |-> None, cache_index |-> EmptyIndex]]

\* shutil.copy2(pdf_path, cached_pdf_path), and the metadata of the entry
SaverCopy(p) ==
    \E rut \in Ruts, pdf_path \in PdfBytes :
        LET key == cache_key(rut, saver_serie[p])
            cached == cached_pdf_path(key)
            copied == [files EXCEPT ![cached] = pdf_path]
        IN /\ savers[p].pc = "idle"
           /\ files' = copied
           /\ savers' = [savers EXCEPT ![p].pc = "copied",
                  ![p].metadata =
                      [rut |-> rut, serie |-> saver_serie[p], pdf_path |-> cached,
                       downloaded_at |-> isoformat(now),
                       expires_at |-> isoformat(expiry(now, cache_expiration_days)),
                       file_size |-> getsize(copied, cached)]]
           /\ UNCHANGED <<now, cache_expiration_days, cache_index, cache_stats, ret, calls,
                           stored, ext_deleted, io_log, rq, batch, last_fund, call, poll,
                           monitor, driver, index_exists>>

\* cache_index = json.load(f); cache_index[cache_key] = metadata
SaverLoad(p) ==
    /\ savers[p].pc = "copied"
    /\ savers' = [savers EXCEPT ![p].pc = "loaded",
           ![p].cache_index =
               put(cache_index, cache_key(savers[p].metadata.rut, saver_serie[p]),
                   savers[p].metadata)]
    /\ UNCHANGED <<cacheVars, rq, batch, last_fund, call, poll, monitor, driver, index_exists>>

\* json.dump(cache_index, f); return True
SaverDump(p) ==
    LET key == cache_key(savers[p].metadata.rut, saver_serie[p]) IN
    /\ savers[p].pc = "loaded"
    /\ cache_index' = savers[p].cache_index
    /\ savers' = [savers EXCEPT ![p].pc = "returned"]
    /\ stored' = put(stored, key, [bytes |-> files[cached_pdf_path(key)], at |-> now])
    /\ ret' = Returned("save_to_cache", key, TRUE, FALSE, FALSE)
    /\ UNCHANGED <<now, cache_expiration_days, files, cache_stats, calls, ext_deleted,
                    io_log, rq, batch, last_fund, call, poll, monitor, driver, index_exists>>

\* the index before the two stores: empty, or holding the entry of an earlier store
InitSavers ==
    /\ now = 0
    /\ cache_expiration_days \in TTLValues
    /\ \E earlier \in BOOLEAN :
           LET other_key == cache_key("8052", "A")
               path == cached_pdf_path(other_key)
               blob == CHOOSE b \in PdfBytes : TRUE
               entry == [rut |-> "8052", serie |-> "A", pdf_path |-> path,
                         downloaded_at |-> isoformat(0),
                         expires_at |-> isoformat(expiry(0, cache_expiration_days)),
                         file_size |-> 4 + blob[2]]
           IN /\ cache_index = IF earlier THEN put(EmptyIndex, other_key, entry)
                               ELSE EmptyIndex
              /\ files = [p \in Paths \cup {path} |->
                              IF p = path /\ earlier THEN blob ELSE NoFile]
              /\ stored = IF earlier
                          THEN put(EmptyIndex, other_key, [bytes |-> blob, at |-> 0])
                          ELSE EmptyIndex
    /\ cache_stats = NoStats
    /\ ret = Returned("__init__", None, None, FALSE, FALSE)
    /\ calls = 0
    /\ ext_deleted = {}
    /\ rq = RqIdle
    /\ batch = BatchIdle
    /\ last_fund = NoFund
    /\ io_log = NoErrors
    /\ savers = NoSavers
    /\ monitor = NoMonitor
    /\ driver = NoDriver
    /\ index_exists = TRUE

(***************************************************************************)
(* The sweep entry by entry, on an index that may hold an entry whose      *)
(* expires_at is not a date.  `order` is the order of cache_index.items(). *)
(***************************************************************************)
\* somebody edits the index file: the expires_at of an entry is no longer ISO-8601
ExternalEditIndex ==
    \E k \in DOMAIN cache_index :
        /\ cache_index[k].expires_at[1] = "iso"
        /\ cache_index' = [cache_index EXCEPT ![k].expires_at = <<"not a date">>]
        /\ ret' = Returned("external_edit", k, None, FALSE, FALSE)
        /\ UNCHANGED <<now, cache_expiration_days, files, cache_stats, calls, stored,
                        ext_deleted, rq, batch, last_fund, io_log, call, poll, procVars>>

RECURSIVE sweep_entries(_, _, _, _)
\* the loop over the entries: datetime.fromisoformat raises on what is not a date,
\* after the blobs of the expired entries before it have been removed
sweep_entries(fs, index, t, order) ==
    IF order = <<>>
    THEN [files |-> fs, raised |-> FALSE]
    ELSE LET entry == index[Head(order)] IN
         IF entry.expires_at[1] # "iso"
         THEN [files |-> fs, raised |-> TRUE]
         ELSE sweep_entries(IF is_expired(t, entry.expires_at)
                            THEN remove(fs, entry.pdf_path) ELSE fs,
                            index, t, Tail(order))

clean_expired_cache_ordered(cs, t, order) ==
    IF sweep_entries(cs.files, cs.index, t, order).raised
    THEN [cs EXCEPT !.files = sweep_entries(cs.files, cs.index, t, order).files]
    ELSE clean_expired_cache(cs, t)

CleanExpiredCacheOrdered ==
    \E order \in {o \in [1..Cardinality(DOMAIN cache_index) -> DOMAIN cache_index] :
                      \A i, j \in DOMAIN o : o[i] = o[j] => i = j} :
        /\ Call(MaxCalls)
        /\ Commit(clean_expired_cache_ordered(CS, now, order))
        /\ ret' = Returned("clean_expired_cache", None, None, FALSE, FALSE)
        /\ UNCHANGED <<now, cache_expiration_days, stored, ext_deleted>>

InitProcessor ==
    /\ now = 0
    /\ cache_expiration_days \in TTLValues
    /\ cache_index = EmptyIndex
    /\ files = [p \in Paths |-> NoFile]
    /\ cache_stats = NoStats
    /\ ret = Returned("__init__", None, None, FALSE, FALSE)
    /\ calls = 0
    /\ stored = [k \in {} |-> None]
    /\ ext_deleted = {}
    /\ rq = RqIdle
    /\ batch = BatchIdle
    /\ last_fund = NoFund
    /\ io_log = NoErrors
    /\ savers = NoSavers
    /\ monitor = NoMonitor
    /\ driver = NoDriver
    /\ index_exists = TRUE

\* pc: "idle", "called" (the arguments are there) or "returned" (the result too)
NoCall == [op |-> None, pc |-> "idle"]


Init ==
    /\ InitProcessor
    /\ call = NoCall
    /\ poll = NoPoll

vars == <<cacheVars, rq, batch, last_fund, call, poll, procVars>>

(***************************************************************************)
(* The cache methods called on one processor.                              *)
(***************************************************************************)
Next ==
    \/ Tick
    \/ ExternalDelete
    \/ GetCachedPdf
    \/ SaveToCache
    \/ CleanExpiredCache

Spec == Init /\ [][Next]_vars

(***************************************************************************)
(* The two retrievers on one processor.                                    *)
(***************************************************************************)
NextRetrieve ==
    \/ Tick
    \/ ExternalDelete
    \/ DownloadPdfFromCmfImproved
    \/ DownloadPdfFromCmf

SpecRetrieve == Init /\ [][NextRetrieve]_vars

(***************************************************************************)
(* The cache across processor restarts: every FondosMutuosProcessor()      *)
(* sweeps the cache that earlier instances filled.                         *)
(***************************************************************************)
NextRestart ==
    \/ Tick
    \/ ExternalDelete
    \/ Construct
    \/ CleanExpiredCache
    \/ SaveToCache

SpecRestart == Init /\ [][NextRestart]_vars

(***************************************************************************)
(* request_with_retry against every transport.                             *)
(***************************************************************************)
NextRetry ==
    \/ RequestWithRetry
    \/ Attempt
    \/ Exhausted

SpecRetry == Init /\ [][NextRetry]_vars

(***************************************************************************)
(* A batch of funds, each against every outside world.                     *)
(***************************************************************************)
NextBatch ==
    \/ ProcesarBatchFondos
    \/ ProcesarFondo
    \/ BatchReturn

SpecBatch == Init /\ [][NextBatch]_vars

(* The processor when index I/O fails. *)
NextFault ==
    \/ Tick
    \/ GetCachedPdfIO
    \/ SaveToCacheIO
    \/ CleanExpiredCacheIO
    \/ DownloadPdfFromCmfImprovedIO

SpecFault == Init /\ [][NextFault]_vars

(* The processor when the index file can also be missing. *)
NextIndex ==
    \/ Tick
    \/ ExternalDeleteIndex
    \/ InitCacheSystem
    \/ GetCachedPdfIndex
    \/ index_exists /\ SaveToCacheIO

SpecIndex == Init /\ [][NextIndex]_vars

(* The sweep of an index that somebody has edited. *)
NextSweep ==
    \/ Tick
    \/ SaveToCache
    \/ ExternalEditIndex
    \/ CleanExpiredCacheOrdered

SpecSweep == Init /\ [][NextSweep]_vars

(* The calls of the browser fallback. *)
NextDriver ==
    \/ DriverCall
    \/ DriverLaunch
    \/ DriverSession
    \/ DriverQuit

SpecDriver == Init /\ [][NextDriver]_vars

(* The composition of the portfolio of one text. *)
InitComposicion ==
    /\ InitProcessor
    /\ call \in {[op |-> "composicion", pc |-> "called", arg |-> lineas, out |-> None] :
                    lineas \in UNION {[1..n -> ComposicionLines] : n \in 0..MaxLineas}}
    /\ poll = NoPoll

SpecComposicion == InitComposicion /\ [][ExtractComposicion]_vars

(* The extractor on one document. *)
InitExtract ==
    /\ InitProcessor
    /\ call \in {[op |-> "extract_extended_data_from_pdf", pc |-> "called",
                   arg |-> doc, out |-> None] : doc \in Documents}
    /\ poll = NoPoll

SpecExtract == InitExtract /\ [][ExtractExtendedDataFromPdf]_vars

(* The health report of the monitor. *)
InitHealth ==
    /\ InitProcessor
    /\ call \in {[op |-> "generate_health_report", pc |-> "called",
                   arg |-> s, out |-> None] : s \in SubStatuses}
    /\ poll = NoPoll

SpecHealth == InitHealth /\ [][GenerateHealthReport]_vars

(* The structure check of the monitor. *)
InitStructure ==
    /\ InitProcessor
    /\ call \in {[op |-> "monitor_cmf_structure", pc |-> "called",
                   arg |-> page, out |-> None] : page \in Pages}
    /\ poll = NoPoll

SpecStructure == InitStructure /\ [][MonitorCmfStructure]_vars

(* The wait for the download after the click. *)
InitPoll ==
    /\ InitProcessor
    /\ call = NoCall
    /\ poll \in Polls

NextPoll ==
    \/ Appear
    \/ Grow
    \/ Finish
    \/ PollNothing
    \/ PollSample
    \/ PollCompare
    \/ PollTimeout

SpecPoll == InitPoll /\ [][NextPoll]_vars

(* The search of a fund in the listing of Fintual. *)
InitFintual ==
    /\ InitProcessor
    /\ call \in {[op |-> "get_fintual_data", pc |-> "called",
                   arg |-> [fondo_id |-> id, fondos |-> fondos], out |-> None] :
                    id \in {<<"a">>, <<"A", "b">>}, fondos \in Listings}
    /\ poll = NoPoll

SpecFintual == InitFintual /\ [][GetFintualData]_vars

(* Two processors storing different funds at the same time. *)
InitConcurrent ==
    /\ InitSavers
    /\ call = NoCall
    /\ poll = NoPoll

NextConcurrent ==
    \/ Tick
    \/ \E p \in Savers : SaverCopy(p)
    \/ \E p \in Savers : SaverLoad(p)
    \/ \E p \in Savers : SaverDump(p)

SpecConcurrent == InitConcurrent /\ [][NextConcurrent]_vars

(* The health-check cycles of one monitor; a step that can run does run. *)
NextMonitor ==
    \/ MonitorStructure
    \/ MonitorEndpoint
    \/ MonitorPdf
    \/ MonitorBaseline
    \/ MonitorReport

SpecMonitor ==
    /\ Init
    /\ [][NextMonitor]_vars
    /\ WF_vars(MonitorEndpoint) /\ WF_vars(MonitorPdf) /\ WF_vars(MonitorBaseline)
    /\ WF_vars(MonitorReport)

(***************************************************************************)
(* Properties of the cache (Spec).                                         *)
(***************************************************************************)

\* C1: once _save_to_cache(K, file) has succeeded, a _get_cached_pdf(K) made while the
\* TTL has not elapsed and nobody deleted the blob is a hit on a blob whose bytes are
\* those of the stored file; a lookup made after the TTL elapsed or after the blob
\* was deleted is a miss, and after it the index does not contain K.
C1_StoreThenLookup ==
    (ret.op = "get_cached_pdf" /\ ret.key \in DOMAIN stored) =>
        IF ret.key \notin ext_deleted
              /\ now <= stored[ret.key].at + cache_expiration_days
        THEN /\ ret.val = "cache/pdfs/" \o ret.key \o ".pdf"
             /\ files[ret.val] = stored[ret.key].bytes
        ELSE /\ ret.val = None
             /\ ret.key \notin DOMAIN cache_index

\* a hit was served, and now the same store has outlived its TTL and the lookup misses
C1_Witness ==
    /\ ret.op = "get_cached_pdf"
    /\ ret.key \in DOMAIN stored
    /\ ret.key \notin ext_deleted
    /\ now > stored[ret.key].at + cache_expiration_days
    /\ cache_stats.hits >= 1
    /\ ret.val = None

\* C2: a _get_cached_pdf(K) step returns a hit only if, in the state it starts from,
\* the index contains K, the blob of the entry exists and now <= expires_at; started
\* on a dangling or an expired entry it returns a miss and leaves neither the index
\* record nor the blob behind.
C2_LookupStep ==
    \A k \in Keys :
        (ret'.op = "get_cached_pdf" /\ ret'.key = k /\ calls' = calls + 1) =>
            LET indexed == k \in DOMAIN cache_index
                blob == indexed /\ files[cache_index[k].pdf_path] # NoFile
                fresh == indexed /\ now <= cache_index[k].expires_at[2]
            IN /\ ret'.val # None => indexed /\ blob /\ fresh
               /\ (indexed /\ ~(blob /\ fresh)) =>
                      /\ ret'.val = None
                      /\ k \notin DOMAIN cache_index'
                      /\ files'[cache_index[k].pdf_path] = NoFile

C2_HitOnlyIfValid == [][C2_LookupStep]_vars

\* a lookup found the entry of a blob somebody deleted, within its TTL, and dropped it
C2_Witness ==
    /\ ret.op = "get_cached_pdf"
    /\ ret.val = None
    /\ ret.key \in DOMAIN stored
    /\ ret.key \in ext_deleted
    /\ now <= stored[ret.key].at + cache_expiration_days
    /\ ret.key \notin DOMAIN cache_index
    /\ cache_stats.misses = 1

(***************************************************************************)
(* Properties of the retrievers (SpecRetrieve).                            *)
(***************************************************************************)

\* C3: a retriever called for a key that has a valid, unexpired entry returns the
\* cached path without HTTP request or browser, adds exactly 1 to hits, and leaves
\* downloads, the index and the blobs as they were.
C3_CachedStep ==
    \A k \in Keys :
        (/\ ret'.op \in {"download_pdf_from_cmf_improved", "download_pdf_from_cmf"}
         /\ ret'.key = k
         /\ calls' = calls + 1
         /\ k \in DOMAIN cache_index
         /\ files[cache_index[k].pdf_path] # NoFile
         /\ now <= cache_index[k].expires_at[2])
        => /\ ret'.val = cache_index[k].pdf_path
           /\ ~ret'.http
           /\ ~ret'.browser
           /\ cache_stats'.hits = cache_stats.hits + 1
           /\ cache_stats'.downloads = cache_stats.downloads
           /\ cache_stats'.misses = cache_stats.misses
           /\ cache_index' = cache_index
           /\ files' = files

C3_ScenarioB == [][C3_CachedStep]_vars

\* the second retrieval of a brochure: one download, then one hit served from the cache
C3_Witness ==
    /\ ret.op = "download_pdf_from_cmf_improved"
    /\ ret.val = "cache/pdfs/8638_UNICA.pdf"
    /\ ~ret.http
    /\ cache_stats.hits = 1
    /\ cache_stats.downloads = 1

(***************************************************************************)
(* Properties of request_with_retry (SpecRetry).                           *)
(***************************************************************************)

\* C4: the i-th sleep of a call (i from 0) lasts backoff ** i, one sleep between two
\* consecutive attempts; with max_retries = 3 and a transport answering 503, 503, 200
\* the call returns the 200 on the 3rd attempt having slept backoff^0 and backoff^1.
C4_Backoff ==
    /\ \A i \in 1..Len(rq.sleeps) : rq.sleeps[i] = rq.backoff ^ (i - 1)
    /\ rq.pc = "loop" => Len(rq.sleeps) = Len(rq.seen)
    /\ (rq.pc = "returned" /\ rq.seen # <<>>) => Len(rq.sleeps) = Len(rq.seen) - 1
    /\ (/\ rq.pc = "returned"
        /\ rq.max_retries = 3
        /\ rq.seen = <<[kind |-> "response", status_code |-> 503],
                       [kind |-> "response", status_code |-> 503],
                       [kind |-> "response", status_code |-> 200]>>)
       => /\ rq.val = [kind |-> "response", status_code |-> 200]
          /\ rq.sleeps = <<1, rq.backoff>>

\* 503, 503, then success, with three attempts allowed and a backoff of 3
C4_Witness ==
    /\ rq.pc = "returned"
    /\ rq.max_retries = 3
    /\ rq.backoff = 3
    /\ Len(rq.seen) = 3
    /\ rq.seen[1].status_code = 503
    /\ rq.seen[2].status_code = 503
    /\ rq.seen[3].status_code = 200

\* C5: a call whose every attempt ended in 404, 503, a timeout or a transport
\* exception made exactly max_retries attempts and ended in a RetryExhausted failure,
\* not a response, which carries the last status or exception seen.
C5_RetryExhausted ==
    (/\ rq.pc = "returned"
     /\ rq.seen # <<>>
     /\ \A i \in 1..Len(rq.seen) :
            \/ rq.seen[i].kind \in {"Timeout", "RequestException"}
            \/ rq.seen[i].status_code \in {404, 503})
    => /\ Len(rq.seen) = rq.max_retries
       /\ rq.val = [kind |-> "RetryExhausted", last |-> rq.seen[Len(rq.seen)]]

\* C6: an attempt is followed by a sleep or by another attempt only if it ended in a
\* timeout, a transport exception or a 404/503; a response with any other status is
\* the last attempt of the call and its return value, with no sleep after it.
C6_RetryOnlyOn ==
    LET retryable(a) == \/ a.kind \in {"Timeout", "RequestException"}
                        \/ a.status_code \in {404, 503}
    IN /\ \A i \in 1..Len(rq.seen) - 1 : retryable(rq.seen[i])
       /\ \A i \in 1..Len(rq.sleeps) : retryable(rq.seen[i])
       /\ \A i \in 1..Len(rq.seen) :
              ~retryable(rq.seen[i]) =>
                  /\ i = Len(rq.seen)
                  /\ rq.pc = "returned"
                  /\ rq.val = rq.seen[i]
                  /\ Len(rq.sleeps) = i - 1

\* a 500 on the second of three allowed attempts is returned there and then
C6_Witness ==
    /\ rq.pc = "returned"
    /\ rq.max_retries = 3
    /\ Len(rq.seen) = 2
    /\ rq.seen[1].status_code = 503
    /\ rq.seen[2].status_code = 500
    /\ rq.val.status_code = 500
    /\ Len(rq.sleeps) = 1

(***************************************************************************)
(* Properties of fund processing (SpecBatch).                              *)
(***************************************************************************)

\* C7: when the retrieval of a fund yields no document the extractor is not run and
\* the record returned has null extraction fields and a non-empty error; and every
\* record of procesar_fondos_mutuos has its extraction fields either populated with
\* a recorded source or null with a non-empty error.
C7_ReasonRecorded ==
    LET r == last_fund.resultado IN
    "tipo_fondo" \in DOMAIN r =>
        /\ (last_fund.retrieved /\ last_fund.pdf_path = None) =>
               /\ ~last_fund.extracted
               /\ r.tipo_fondo = None
               /\ r.perfil_riesgo = None
               /\ r.composicion_portafolio = <<>>
               /\ r.error \notin {None, ""}
        /\ \/ r.tipo_fondo # None /\ "tipo_fondo" \in DOMAIN r.data_sources
           \/ r.tipo_fondo = None /\ r.error \notin {None, ""}

\* C8: a fund whose processing failed (no fund found, no document retrieved, document
\* not processed, an exception) has the failure in its record's error and is listed
\* in 'fallidos'; every fund processed so far is in exactly one of the two lists, in
\* input order, and at the end exitosos + fallidos = total.
C8_FailuresRecorded ==
    LET r == last_fund.resultado
        failed == \/ "tipo_fondo" \notin DOMAIN r
                  \/ ~r.fuente_cmf
                  \/ last_fund.retrieved /\ last_fund.pdf_path = None
                  \/ last_fund.extracted /\ r.tipo_fondo = None
        order(list) == [j \in 1..Len(list) |-> list[j].fondo_id]
    IN batch.i >= 1 =>
        /\ failed =>
               /\ r.error \notin {None, ""}
               /\ batch.fallidos # <<>>
               /\ batch.fallidos[Len(batch.fallidos)].fondo_id = r.fondo_id
        /\ Len(batch.exitosos) + Len(batch.fallidos) = batch.i
        /\ batch.resumen.exitosos = Len(batch.exitosos)
        /\ batch.resumen.fallidos = Len(batch.fallidos)
        /\ batch.pc = "returned" =>
               batch.resumen.exitosos + batch.resumen.fallidos = batch.resumen.total

(***************************************************************************)
(* Properties of the sweep (SpecRestart).                                  *)
(***************************************************************************)

\* C9: a sweep step, _clean_expired_cache called directly or by the constructor,
\* ends with no entry whose expires_at has passed in the index and with none of
\* their blobs on disk, whether or not the blob was there before; every other entry
\* and every other blob is as before, and no entry is added.
C9_SweepStep ==
    (ret'.op \in {"clean_expired_cache", "__init__"} /\ calls' = calls + 1) =>
        LET expired == {k \in DOMAIN cache_index : now > cache_index[k].expires_at[2]}
            blobs == {cache_index[k].pdf_path : k \in expired}
        IN /\ DOMAIN cache_index' = DOMAIN cache_index \ expired
           /\ \A k \in DOMAIN cache_index' : cache_index'[k] = cache_index[k]
           /\ \A p \in blobs : files'[p] = NoFile
           /\ \A p \in DOMAIN files \ blobs : files'[p] = files[p]

C9_SweepRemovesExpired == [][C9_SweepStep]_vars

\* a new processor swept an expired entry whose blob was already gone, and kept the
\* entry and the blob of a store that has not expired
C9_Witness ==
    /\ ret.op = "__init__"
    /\ calls >= 1
    /\ \E k \in DOMAIN stored :
        /\ k \in ext_deleted
        /\ now > stored[k].at + cache_expiration_days
        /\ k \notin DOMAIN cache_index
        /\ \E other \in DOMAIN cache_index :
            /\ now <= stored[other].at + cache_expiration_days
            /\ files[cache_index[other].pdf_path] = stored[other].bytes

\* C10: in a state a sweep has just left, sweeping once more deletes nothing: the
\* index and the blob directory after the second sweep are those after the first.
C10_SweepIdempotent ==
    (ret.op \in {"clean_expired_cache", "__init__"}) =>
        LET again == clean_expired_cache(CS, now)
        IN /\ again.index = cache_index
           /\ again.files = files

\* a sweep that had two expired stores to remove, blobs included
C10_Witness ==
    /\ ret.op = "clean_expired_cache"
    /\ cache_index = EmptyIndex
    /\ Cardinality(DOMAIN stored) = 2
    /\ ext_deleted = {}
    /\ \A k \in DOMAIN stored :
        /\ now > stored[k].at + cache_expiration_days
        /\ files["cache/pdfs/" \o k \o ".pdf"] = NoFile

(***************************************************************************)
(* Properties of the entries of the index (Spec).                          *)
(***************************************************************************)

\* C11: every entry of the index expires strictly after it was downloaded, whatever
\* TTL the processor was constructed with, and exactly TTL days after it.
C11_ExpiresAfterDownload ==
    \A k \in DOMAIN cache_index :
        /\ cache_index[k].expires_at[2] > cache_index[k].downloaded_at[2]
        /\ cache_index[k].expires_at[2]
               = cache_index[k].downloaded_at[2] + cache_expiration_days

(* Index I/O errors (SpecFault). *)
\* C12: an I/O or parse error on the index during a lookup, a store or a sweep never
\* escapes the call: the lookup is a counted miss returning None, the store returns
\* False, the sweep returns, and a retrieval whose lookup failed goes on to download.
C12_IndexErrorsContained ==
    /\ ~io_log.raised
    /\ (ret.op = "get_cached_pdf" /\ io_log.lookup)
           => (ret.val = None /\ cache_stats.misses > 0)
    /\ (ret.op = "save_to_cache" /\ io_log.store) => ret.val = FALSE
    /\ (ret.op = "download_pdf_from_cmf_improved" /\ io_log.lookup)
           => (ret.http /\ cache_stats.downloads > 0)
    /\ (ret.op = "download_pdf_from_cmf_improved" /\ io_log.store)
           => ret.val = folleto_path("8638")

\* a retrieval whose lookup and whose store both failed on the index, and which
\* returned the downloaded brochure
C12_Witness ==
    /\ ret.op = "download_pdf_from_cmf_improved"
    /\ io_log.lookup /\ io_log.store
    /\ ret.val = folleto_path("8638")

(* Provenance of the fields of a fund's record (SpecBatch). *)
\* C13: in the record returned by procesar_fondos_mutuos every field holding a value
\* has an entry in data_sources.
C13_Provenance ==
    LET r == last_fund.resultado IN
    "data_sources" \in DOMAIN r =>
        /\ \A f \in {"nombre", "nombre_cmf", "run", "rut_base", "tipo_fondo",
                     "perfil_riesgo", "estado_fondo"} :
               r[f] # None => f \in DOMAIN r.data_sources
        /\ r.composicion_portafolio # <<>>
               => "composicion_portafolio" \in DOMAIN r.data_sources

(* The extractor (SpecExtract). *)
\* C14: after the extractor has run on a document, the series code, the currency, the
\* risk category and the horizon in months are None unless the text of the document
\* states them; the series may also be the one in the name of the file, the risk
\* category may come from the scale or from a risk keyword of the text, the months
\* from "N meses".
C14_NoFabricatedValues ==
    call.pc = "returned" =>
        LET texto == call.arg.texto
            r == call.out
        IN /\ r.serie_fondo # None =>
                  \/ r.serie_fondo = "B" /\ "Serie: B" \in texto
                  \/ r.serie_fondo = "A" /\ call.arg.filename = "fondo_8638_A.pdf"
           /\ r.moneda # None => "Moneda: USD" \in texto
           /\ r.perfil_riesgo # None => ("R2" \in texto \/ "fondo agresivo" \in texto)
           /\ r.horizonte_inversion_meses # <<>>
                  => (r.horizonte_inversion_meses = <<24>> /\ "24 meses" \in texto)

(* The health report (SpecHealth). *)
C15_severity(status) ==
    IF status \in {"ok", "healthy"} THEN 0
    ELSE IF status = "warning" THEN 1
    ELSE 2

\* C15: the overall status of the health report is 'healthy' only if the four
\* sub-statuses are ok, and with ok/healthy < warning < error/critical it is as severe
\* as the worst of them.
C15_OverallIsWorst ==
    call.pc = "returned" =>
        /\ call.out.status = "healthy" => \A i \in 1..4 : call.arg[i] = "ok"
        /\ \A i \in 1..4 : C15_severity(call.out.status) >= C15_severity(call.arg[i])
        /\ \E i \in 1..4 : C15_severity(call.out.status) = C15_severity(call.arg[i])

(* The structure check (SpecStructure). *)
\* C16: when the page lacks the name verFolleto, an element wired to it, the reference
\* to ver_folleto_fm.php or the three parameter names, the structure check is
\* 'critical' and its errors list the missing element; when only some of the
\* parameter names are missing, it is 'warning'.
C16_StructureSeverity ==
    (call.pc = "returned" /\ call.arg.get = "ok") =>
        LET page == call.arg
            r == call.out
            listed_error(e) == \E i \in DOMAIN r.errors : r.errors[i] = e
        IN /\ ~page.verFolleto => (r.status = "critical" /\ listed_error(ErrVerFolleto))
           /\ ~page.onclick => (r.status = "critical" /\ listed_error(ErrOnclick))
           /\ ~page.ver_folleto_fm_php
                  => (r.status = "critical" /\ listed_error(ErrEndpoint))
           /\ params_found(page) = 0
                  => (r.status = "critical" /\ listed_error(ErrParams))
           /\ (page.verFolleto /\ page.onclick /\ page.ver_folleto_fm_php
                   /\ params_found(page) = 1) => r.status = "warning"

(* The payload accepted by the primary retrieval path (SpecRetrieve). *)
\* C17: a payload is accepted and cached only if its first four bytes are %PDF: every
\* blob of the cache starts with %PDF, and a retrieval that returned a path after
\* going to the network left such a blob under its key.
C17_OnlyPdfAccepted ==
    /\ \A p \in CachePaths : files[p] # NoFile => files[p][1] = "%PDF"
    /\ (ret.op = "download_pdf_from_cmf" /\ ret.http /\ ret.val # None)
           => files[cached_pdf_path(ret.key)][1] = "%PDF"

(* The wait for the download (SpecPoll). *)
\* C18: the wait returns only a PDF that is new since the snapshot taken before the
\* click and larger than the floor; and when the new PDF, having appeared while it was
\* still written, is complete and larger than the floor 3 seconds or more before the
\* timeout, the wait returns it rather than None.
C18_DownloadDetected ==
    poll.pc = "returned" =>
        /\ poll.val # None =>
               /\ poll.val \notin poll.existing_files
               /\ poll.dir[poll.val] > min_size_kb * 1024
        /\ (poll.ready /\ poll.dir["doc.pdf"] > min_size_kb * 1024)
               => poll.val = "doc.pdf"

(* A fund that no strategy of the locator finds (SpecBatch). *)
\* C19: when neither Fintual nor CMF yields the fund, the record says that the fund
\* was not found and its name and registry ids are None, not derived from the query.
C19_NoPlaceholderIdentity ==
    LET r == last_fund.resultado IN
    ("nombre" \in DOMAIN r /\ r.error = ErrFintual \o " | " \o ErrCmf) =>
        /\ r.nombre = None
        /\ r.nombre_cmf = None
        /\ r.run = None
        /\ r.rut_base = None

(* The search in the listing of Fintual (SpecFintual). *)
\* the similarity of a fund of the listing to the query: an exact match of the name,
\* then a substring match of the name, then a match of the symbol; 0 is unrelated
C20_score(fondo_id, fondo) ==
    IF fondo.name # <<>> /\ lower(fondo.name) = lower(fondo_id) THEN 100
    ELSE IF fondo.name # <<>> /\ (\/ contains(lower(fondo_id), lower(fondo.name))
                                  \/ contains(lower(fondo.name), lower(fondo_id))) THEN 80
    ELSE IF fondo.symbol # <<>> /\ contains(lower(fondo_id), lower(fondo.symbol)) THEN 60
    ELSE 0

\* C20: the fund that _get_fintual_data returns is similar to the query, so never a
\* fund with an unrelated or an empty name, and no fund of the listing is more similar
\* to the query than it, wherever it stands in the listing.
C20_BestMatchReturned ==
    (call.pc = "returned" /\ call.out.found) =>
        LET fondo_id == call.arg.fondo_id
            fondos == call.arg.fondos
        IN /\ C20_score(fondo_id, fondos[call.out.index]) > 0
           /\ \A j \in DOMAIN fondos :
                  C20_score(fondo_id, fondos[call.out.index])
                      >= C20_score(fondo_id, fondos[j])

(* The confidence of an extraction (SpecExtract). *)
\* the fields of a result that hold a value
C21_fields(r) ==
    {f \in {"moneda", "tipo_fondo", "perfil_riesgo_escala", "perfil_riesgo",
            "horizonte_inversion", "patrimonio_moneda"} : r[f] # None}
        \cup {f \in {"horizonte_inversion_meses", "patrimonio_sede", "patrimonio"} :
                 r[f] # <<>>}
        \cup (IF r.serie_fondo = "B" THEN {"serie_fondo"} ELSE {})

C21_bucket(confidence) ==
    IF confidence = "low" THEN 0 ELSE IF confidence = "medium" THEN 1 ELSE 2

\* C21: a document whose extracted fields include those of another document has a
\* confidence that is not in a lower bucket, with low < medium < high.
C21_ConfidenceMonotonic ==
    call.pc = "returned" =>
        \A b \in Documents :
            C21_fields(extract_extended_data_from_pdf(b)) \subseteq C21_fields(call.out)
                => C21_bucket(extract_extended_data_from_pdf(b).extraction_confidence)
                       <= C21_bucket(call.out.extraction_confidence)

\* C25: the counter behind the confidence counts each field that holds a value at most
\* once and is at most the total of 20, and the confidence is 'high' from 70 percent
\* of the total, 'medium' from 40 percent, else 'low'.
C25_ConfidenceScore ==
    call.pc = "returned" =>
        /\ call.out.campos_extraidos <= Cardinality(C21_fields(call.out))
        /\ call.out.campos_extraidos <= campos_totales
        /\ call.out.extraction_confidence =
               (IF 10 * call.out.campos_extraidos >= 7 * campos_totales THEN "high"
                ELSE IF 10 * call.out.campos_extraidos >= 4 * campos_totales THEN "medium"
                ELSE "low")

(***************************************************************************)
(* Properties of two concurrent stores (SpecConcurrent).                   *)
(***************************************************************************)

\* C22: once both processors have returned from _save_to_cache, the index file holds the
\* entry of each of the two funds, and the entry of every fund stored before them
C22_NoLostUpdate ==
    (\A p \in Savers : savers[p].pc = "returned")
        => \A key \in DOMAIN stored : key \in DOMAIN cache_index

(***************************************************************************)
(* Properties of the health-check cycle (SpecMonitor).                     *)
(***************************************************************************)
C23_in_cycle == monitor.caller = "generate_health_report"

C23_order ==
    {<<"idle", "structure">>, <<"report", "structure">>, <<"baseline", "structure">>,
     <<"structure", "endpoint">>, <<"endpoint", "pdf">>, <<"pdf", "baseline">>,
     <<"baseline", "report">>}

\* C23: a cycle of generate_health_report runs the structure probe, the endpoint probe,
\* the document-download probe, the baseline comparison and the report in this order;
\* whatever the earlier probes found, a cycle that has begun reaches the report; and the
\* report holds the result of each of the four checks of that cycle
C23_CycleRunsEveryProbe ==
    /\ [][monitor'.pc # monitor.pc => <<monitor.pc, monitor'.pc>> \in C23_order]_vars
    /\ [](monitor.pc = "report" =>
              /\ monitor.report # <<>>
              /\ monitor.report[1].detailed_results =
                     [structure |-> monitor.structure_result[1],
                      endpoint |-> monitor.endpoint_result[1],
                      pdf |-> monitor.pdf_result[1],
                      baseline |-> monitor.baseline_result[1]])
    /\ ((C23_in_cycle /\ monitor.pc = "structure") ~> monitor.pc = "report")

\* a report made after the structure probe failed on the network and the endpoint
\* probe was critical
C23_Witness ==
    /\ monitor.pc = "report"
    /\ monitor.structure_result[1].html_snapshot = <<>>
    /\ monitor.structure_result[1].status = "critical"
    /\ monitor.endpoint_result[1].status = "critical"
    /\ monitor.pdf_result[1].status = "critical"
    /\ monitor.report[1].detailed_results.baseline = monitor.baseline_result[1]

C24_rank(status) ==
    IF status = "critical" THEN 2 ELSE IF status = "warning" THEN 1 ELSE 0

C24_recorded(changes, type, check_name) ==
    \E i \in 1..Len(changes) :
        /\ changes[i].type = type
        /\ changes[i].check = check_name
        /\ changes[i].severity \in {"warning", "critical"}

C24_compared == monitor.pc \in {"baseline", "report"}

\* C24: a comparison that finds no baseline stores the current snapshot as the baseline
\* and reports ok with no change; a comparison with a baseline records a change, with a
\* severity, for every check whose status is worse than in the baseline and for a
\* different count of onclick elements, and its status is the worst severity recorded
C24_BaselineComparison ==
    C24_compared =>
        LET result == monitor.baseline_result[1]
            current == monitor.structure_result[1]
            changes == result.changes_detected
        IN IF monitor.against = <<>>
           THEN /\ monitor.baseline_file = <<current>>
                /\ result.status = "ok"
                /\ changes = <<>>
           ELSE LET baseline == monitor.against[1] IN
                /\ \A name \in DOMAIN current.checks :
                       LET old == IF name \in DOMAIN baseline.checks
                                  THEN baseline.checks[name].status ELSE "ok"
                       IN C24_rank(current.checks[name].status) > C24_rank(old)
                              => C24_recorded(changes, "check_status_change", name)
                /\ \A name \in DOMAIN current.checks \cap DOMAIN baseline.checks :
                       (name = "onclick_attributes"
                            /\ current.checks[name].count # baseline.checks[name].count)
                           => C24_recorded(changes, "onclick_count_change", name)
                /\ result.status =
                       IF \E i \in 1..Len(changes) : changes[i].severity = "critical"
                       THEN "critical"
                       ELSE IF \E i \in 1..Len(changes) : changes[i].severity = "warning"
                       THEN "warning" ELSE "ok"

\* a comparison with a baseline in which the onclick elements have gone
C24_Witness ==
    /\ monitor.pc = "baseline"
    /\ monitor.against # <<>>
    /\ "onclick_attributes" \in DOMAIN monitor.against[1].checks
    /\ monitor.against[1].checks["onclick_attributes"].count = 2
    /\ "onclick_attributes" \in DOMAIN monitor.structure_result[1].checks
    /\ monitor.structure_result[1].checks["onclick_attributes"].status = "critical"
    /\ monitor.baseline_result[1].status = "critical"

\* C30: a baseline file that exists is not modified by any comparison; it is the snapshot
\* of the first comparison that found no baseline, and that is the snapshot every later
\* comparison loads
C30_BaselineStable ==
    /\ [][monitor.baseline_file # <<>> => monitor'.baseline_file = monitor.baseline_file]_vars
    /\ [](/\ monitor.baseline_file = monitor.first
          /\ (C24_compared /\ monitor.against # <<>>) => monitor.against = monitor.first)

\* a later cycle with another snapshot, diffed against a first snapshot that was critical
C30_Witness ==
    /\ monitor.pc = "report"
    /\ monitor.against # <<>>
    /\ monitor.against = monitor.baseline_file
    /\ monitor.baseline_file[1].status = "critical"
    /\ monitor.structure_result[1].status = "ok"
    /\ monitor.baseline_result[1].changes_detected # <<>>

(***************************************************************************)
(* Properties of the cache counters (SpecIndex).                           *)
(***************************************************************************)

\* C28: every call of _get_cached_pdf adds one to exactly one of hits and misses, also
\* when the index file is absent or unreadable, and no step lowers a counter
C28_EveryLookupCounted ==
    [][/\ cache_stats'.hits >= cache_stats.hits
       /\ cache_stats'.misses >= cache_stats.misses
       /\ (calls' = calls + 1 /\ ret'.op = "get_cached_pdf") =>
              cache_stats'.hits + cache_stats'.misses
                  = cache_stats.hits + cache_stats.misses + 1]_vars

(***************************************************************************)
(* Properties of the sweep on an edited index (SpecSweep).                 *)
(***************************************************************************)

\* C29: when _clean_expired_cache returns, no entry left in the index names a blob that
\* this sweep deleted, also when an entry of the index has a malformed expires_at
C29_SweepKeepsIndexConsistent ==
    [][(calls' = calls + 1 /\ ret'.op = "clean_expired_cache") =>
           \A k \in DOMAIN cache_index' :
               exists(files, cache_index'[k].pdf_path)
                   => exists(files', cache_index'[k].pdf_path)]_vars

(***************************************************************************)
(* Properties of the browser fallback (SpecDriver).                        *)
(***************************************************************************)

\* C27: a call of _download_pdf_with_selenium starts at most one browser, and when the
\* call has returned, however it ended, no browser it started is still running
C27_BrowserQuitOnEveryPath ==
    /\ driver.launched <= 1
    /\ driver.running <= 1
    /\ driver.pc \in {"idle", "setup", "returned"} => driver.running = 0

\* a call that returned None after an exception in the session, following a call whose
\* download timed out
C27_Witness ==
    /\ driver.pc = "returned"
    /\ driver.launched = 1
    /\ driver.raised
    /\ driver.val = None
    /\ Len(driver.exits) = 2
    /\ driver.exits[1] = "timeout"

(***************************************************************************)
(* Properties of the composition of the portfolio (SpecComposicion).       *)
(***************************************************************************)
C26_taxonomy ==
    {"Renta Fija Gobierno", "Renta Fija Corporativa", "Acciones Locales",
     "Acciones Internacionales", "Fondos Mutuos", "Derivados", "Efectivo", "Otros"}

C26_good(items, cap) ==
    /\ Len(items) <= cap
    /\ \A i, j \in 1..Len(items) : i # j => items[i].activo # items[j].activo
    /\ \A i \in 1..(Len(items) - 1) : items[i].porcentaje >= items[i + 1].porcentaje

\* C26: the composition comes from the first of the three patterns that finds an entry;
\* neither list names an asset twice, both are in non-increasing order of weight and cut
\* to 15 and 20 entries, every detailed entry has a category of the taxonomy, and the
\* three lines Treasury Bonds 45,20%, Corporate Bonds 30,10%, Equities 24,70% give
\* exactly the entries 0.452, 0.301, 0.247 in this order
C26_Composition ==
    (call.op = "composicion" /\ call.pc = "returned") =>
        /\ C26_good(call.out.composicion_portafolio, 15)
        /\ C26_good(call.out.composicion_detallada, 20)
        /\ \A i \in 1..Len(call.out.composicion_detallada) :
               call.out.composicion_detallada[i].categoria \in C26_taxonomy
        /\ patron1(call.arg) # <<>> =>
               call.out.composicion_detallada = sort_reverse(patron1(call.arg))
        /\ (Len(call.arg) = 3 /\ \A i \in 1..3 : call.arg[i].kind = "inline"
               /\ call.arg[1].pct = 45200 /\ call.arg[2].pct = 30100
               /\ call.arg[3].pct = 24700) =>
               call.out.composicion_portafolio =
                   <<[activo |-> "Treasury Bonds", porcentaje |-> 45200],
                     [activo |-> "Corporate Bonds", porcentaje |-> 30100],
                     [activo |-> "Equities", porcentaje |-> 24700]>>
====
